---- MODULE Spec2Model ----
(***************************************************************************)
(* Model of kart's spatial filter indexer                                  *)
(* (kart/spatial_filter/index.py, update_spatial_filter_index).            *)
(*                                                                         *)
(* The object database is a small fixed repository: a commit DAG, the      *)
(* feature blobs of each commit's tree, and what the geometry / CRS        *)
(* libraries return for each blob.  The index file is the two tables       *)
(* `commits` and `feature_envelopes`.  One run of the indexer is a         *)
(* sequence of steps, one per statement that reaches the index file, so    *)
(* that a run can be cut short (fatal error, cancellation, crash) between  *)
(* any two of them.                                                        *)
(***************************************************************************)
EXTENDS Integers, Sequences, FiniteSets, TLC

VARIABLES
    commits,            \* table `commits`: [exists, rows], committed content
    feature_envelopes,  \* table `feature_envelopes`: [exists, rows], committed content
    pc,                 \* position of the run inside update_spatial_filter_index
    args,               \* arguments of the current / last run: commits, clear_existing, dry_run
    start_commits,      \* local of the run (index.py:290)
    stop_commits,       \* local of the run (index.py:290)
    all_independent_commits, \* local of the run (index.py:290)
    bits_per_value,     \* encoder.BITS_PER_VALUE of the run (index.py:313-314)
    stream,             \* feature_oid_iter: blobs the rev-list subprocess has still to yield
    tx,                 \* the open sqlite transaction of index.py:335-362: its view of both tables
    seen,               \* history: blobs taken from feature_oid_iter in this run
    upserted,           \* history: blob ids this run executed INSERT OR REPLACE for
    walk_failed,        \* history: the rev-list subprocess of this run died before its end
    outcome,            \* history: how the last run ended
    pre,                \* history: both tables as they were when the run started
    trail,              \* history: the completed indexing runs since the fresh index, or Tainted
    calc                \* the pure function under study: its input and what was computed so far

vars == <<commits, feature_envelopes, pc, args, start_commits, stop_commits,
          all_independent_commits, bits_per_value, stream, tx, seen, upserted,
          walk_failed, outcome, pre, trail,
          calc>>

----------------------------------------------------------------------------
(* Bounds of the model *)

\* a run is asked for at most this many commits
MaxRequest == 2
\* the trail of clean indexing runs is kept up to this length
MaxTrail == 2
\* significant bits of a floating-point number (a Python float has 53)
FloatPrecision == 8
\* the codec is studied for the even bits-per-value up to twice this
MaxHalfBits == 2
\* bytes per envelope in an index file written with another bits-per-value
LegacyEnvelopeLength == 8
\* the coordinates given to the codec span this many binades, from the one
\* of the largest longitude (latitude) down
InputBinades == 2

----------------------------------------------------------------------------
(* The repository: commit DAG and trees *)

Commits == {"c1", "c2", "c3"}

\* c1 is the root; c2 and c3 are two branches off c1
Parents(c) ==
    CASE c = "c1" -> {}
      [] c = "c2" -> {"c1"}
      [] c = "c3" -> {"c1"}

Blobs == {"b1", "b2", "b3", "b4", "b5"}

\* the feature blobs in the tree of each commit: b2 is added on both
\* branches, b3 is deleted on branch c3
Tree(c) ==
    CASE c = "c1" -> {"b1", "b3"}
      [] c = "c2" -> {"b1", "b2", "b3", "b5"}
      [] c = "c3" -> {"b1", "b2", "b4"}

RECURSIVE AncestorsOf(_)
\* proper ancestors of a commit
AncestorsOf(c) ==
    Parents(c) \cup UNION {AncestorsOf(p) : p \in Parents(c)}

\* commits reachable from a set of commits, the set included
Reach(S) == S \cup UNION {AncestorsOf(c) : c \in S}

\* feature blobs reachable from a set of commits
BlobsOf(S) == UNION {Tree(c) : c \in Reach(S)}

----------------------------------------------------------------------------
(* The feature blobs: what the object database and the geometry / CRS     *)
(* libraries return for each of them                                       *)

\* the dataset path rev-list reports for a feature blob
DsPathOf(b) == IF b = "b4" THEN "notes" ELSE "roads"

\* what get_geometry finds in the blob: a geometry, an empty geometry, or none
GeometryOf(b) == IF b = "b3" THEN "empty" ELSE "geom"

\* the (w, s, e, n) envelope in whole degrees that the envelope builder
\* returns for the blob's geometry, or <<>> for None (b5: wider than 180 degrees)
BuiltEnvelopeOf(b) ==
    CASE b = "b1" -> <<174, -42, 175, -41>>
      [] b = "b2" -> <<179, -10, -179, 10>>
      [] b = "b4" -> <<0, 0, 1, 1>>
      [] OTHER    -> <<>>

\* CrsHelper.transforms_for_dataset: the transforms that loaded for a dataset
\* (none of the CRS definitions of "notes" loads)
transforms_for_dataset(ds_path) ==
    IF ds_path = "roads" THEN {"EPSG:2193 -> EPSG:4326", "IDENTITY(EPSG:4326)"} ELSE {}

\* get_envelope_for_indexing: the envelope over all the transforms, <<>> for None
get_envelope_for_indexing(feature_oid, transforms) == BuiltEnvelopeOf(feature_oid)

----------------------------------------------------------------------------
(* EnvelopeEncoder *)

DEFAULT_BITS_PER_VALUE == 20

RECURSIVE Pow2(_)
Pow2(n) == IF n = 0 THEN 1 ELSE 2 * Pow2(n - 1)

\* math.floor and math.ceil of the quotient a / b, b > 0
FloorDiv(a, b) == a \div b
CeilDiv(a, b) == -((-a) \div b)

VALUE_MAX_INT(bits) == Pow2(bits) - 1
BYTES_PER_ENVELOPE(bits) == (4 * bits) \div 8

\* EnvelopeEncoder._encode_value with round_fn = math.floor
encode_value_floor(bits, value, min_value, max_value) ==
    FloorDiv((value - min_value) * VALUE_MAX_INT(bits), max_value - min_value)

\* EnvelopeEncoder._encode_value with round_fn = math.ceil
encode_value_ceil(bits, value, min_value, max_value) ==
    CeilDiv((value - min_value) * VALUE_MAX_INT(bits), max_value - min_value)

\* EnvelopeEncoder.encode: the four values, most significant first, and the
\* number of bytes they are packed into
encode(bits, envelope) ==
    [length |-> BYTES_PER_ENVELOPE(bits),
     values |-> << encode_value_floor(bits, envelope[1], -180, 180),
                   encode_value_floor(bits, envelope[2], -90, 90),
                   encode_value_ceil(bits, envelope[3], -180, 180),
                   encode_value_ceil(bits, envelope[4], -90, 90) >>]

----------------------------------------------------------------------------
(* EnvelopeEncoder on floating-point coordinates.  A float is kept as the   *)
(* fraction <<numerator, denominator>> it stands for, in lowest terms, the  *)
(* denominator a power of two.  Every arithmetic operation of the code      *)
(* rounds its exact result to the nearest float, ties to even.              *)

RECURSIVE Reduce(_, _)
Reduce(n, d) == IF d > 1 /\ n % 2 = 0 THEN Reduce(n \div 2, d \div 2) ELSE <<n, d>>

\* N/D > 0 scaled by a power of two into [2^(p-1), 2^p): <<N', D', e>> with
\* N/D = N'/D' * 2^e
RECURSIVE Normalise(_, _, _)
Normalise(N, D, e) ==
    IF N >= Pow2(FloatPrecision) * D THEN Normalise(N, 2 * D, e + 1)
    ELSE IF N < Pow2(FloatPrecision - 1) * D THEN Normalise(2 * N, D, e - 1)
    ELSE <<N, D, e>>

\* N/D rounded to the nearest integer, ties to even
RoundHalfEven(N, D) ==
    LET q == N \div D
        r == N % D
    IN  IF 2 * r > D \/ (2 * r = D /\ q % 2 = 1) THEN q + 1 ELSE q

\* the float nearest to n/d, d > 0: the result of a float operation whose
\* exact value is n/d
fl(n, d) ==
    IF n = 0 THEN <<0, 1>>
    ELSE LET t == Normalise(IF n < 0 THEN -n ELSE n, d, 0)
             m == RoundHalfEven(t[1], t[2])
             sm == IF n < 0 THEN -m ELSE m
         IN  IF t[3] >= 0 THEN <<sm * Pow2(t[3]), 1>> ELSE Reduce(sm, Pow2(-t[3]))

BITS_PER_ENVELOPE(bits) == 4 * bits
ENVELOPE_MAX_INT(bits) == Pow2(BITS_PER_ENVELOPE(bits)) - 1

\* EnvelopeEncoder._encode_value: (value - min_value) / (max_value - min_value),
\* times VALUE_MAX_INT, then round_fn
encode_value(bits, value, min_value, max_value, round_fn) ==
    LET offset == fl(value[1] - min_value * value[2], value[2])
        normalised == fl(offset[1], offset[2] * (max_value - min_value))
        scaled == fl(normalised[1] * VALUE_MAX_INT(bits), normalised[2])
    IN  IF round_fn = "floor" THEN FloorDiv(scaled[1], scaled[2])
                              ELSE CeilDiv(scaled[1], scaled[2])

\* faulty variant: the bytes of the integer, least significant first
RECURSIVE to_bytes_little(_, _)
to_bytes_little(integer, length) ==
    IF length = 0 THEN <<>>
    ELSE <<integer % 256>> \o to_bytes_little(integer \div 256, length - 1)

\* int.to_bytes(length, "big"): the bytes of the integer, most significant first
RECURSIVE to_bytes(_, _)
to_bytes(integer, length) ==
    IF length = 0 THEN <<>>
    ELSE Append(to_bytes(integer \div 256, length - 1), integer % 256)

\* int.from_bytes(encoded, "big")
RECURSIVE from_bytes(_)
from_bytes(encoded) ==
    IF encoded = <<>> THEN 0
    ELSE 256 * from_bytes(SubSeq(encoded, 1, Len(encoded) - 1)) + encoded[Len(encoded)]

\* EnvelopeEncoder.encode: w, then s, e and n are shifted into one integer,
\* which is written as BYTES_PER_ENVELOPE bytes
encode_bytes(bits, envelope) ==
    LET iw == encode_value(bits, envelope[1], -180, 180, "floor")
        is == encode_value(bits, envelope[2], -90, 90, "floor")
        ie == encode_value(bits, envelope[3], -180, 180, "ceil")
        in == encode_value(bits, envelope[4], -90, 90, "ceil")
        integer == ((iw * Pow2(bits) + is) * Pow2(bits) + ie) * Pow2(bits) + in
    IN  to_bytes(integer, BYTES_PER_ENVELOPE(bits))

\* EnvelopeEncoder._decode_value: encoded / VALUE_MAX_INT, times
\* (max_value - min_value), plus min_value
decode_value(bits, encoded, min_value, max_value) ==
    LET normalised == fl(encoded, VALUE_MAX_INT(bits))
        scaled == fl(normalised[1] * (max_value - min_value), normalised[2])
    IN  fl(scaled[1] + min_value * scaled[2], scaled[2])

\* EnvelopeEncoder.decode: n, e, s and w are masked off the integer, least
\* significant first, and returned as (w, s, e, n)
decode(bits, encoded) ==
    LET integer == from_bytes(encoded)
        n == decode_value(bits, integer % Pow2(bits), -90, 90)
        e == decode_value(bits, (integer \div Pow2(bits)) % Pow2(bits), -180, 180)
        s == decode_value(bits, (integer \div Pow2(2 * bits)) % Pow2(bits), -90, 90)
        w == decode_value(bits, (integer \div Pow2(3 * bits)) % Pow2(bits), -180, 180)
    IN  <<w, s, e, n>>

----------------------------------------------------------------------------
(* get_geometry: a feature is a legend and its fields; a field is "Geometry",
   "EmptyGeometry" (a Geometry for which is_empty() holds), "None" or "other" *)

\* the values of a column id: an index into the fields, None, or the
\* NO_GEOMETRY_COLUMN marker
ColumnIndex(i) == [kind |-> "index", index |-> i]
NoneColumn == [kind |-> "None", index |-> 0]
NO_GEOMETRY_COLUMN == [kind |-> "NO_GEOMETRY_COLUMN", index |-> 0]

\* isinstance(field, Geometry)
IsGeometry(field) == field \in {"Geometry", "EmptyGeometry"}

\* _find_geometry_column: the index of the first Geometry; failing that, None
\* when some field is None and NO_GEOMETRY_COLUMN otherwise
find_geometry_column(fields) ==
    IF \E i \in DOMAIN fields : IsGeometry(fields[i])
    THEN ColumnIndex(CHOOSE i \in DOMAIN fields :
                        /\ IsGeometry(fields[i])
                        /\ \A j \in DOMAIN fields : IsGeometry(fields[j]) => i <= j)
    ELSE IF \E i \in DOMAIN fields : fields[i] = "None" THEN NoneColumn
    ELSE NO_GEOMETRY_COLUMN

\* get_geometry.legend_to_col_id.get(legend)
MemoGet(legend_to_col_id, legend) ==
    IF legend \in DOMAIN legend_to_col_id THEN legend_to_col_id[legend] ELSE NoneColumn

\* get_geometry: the value returned ("None" for None), the memo as the call
\* leaves it, and raised when fields[col_id] fails: fields[None] is a
\* TypeError, an index past the end an IndexError
get_geometry(legend_to_col_id, legend, fields) ==
    LET memoized == MemoGet(legend_to_col_id, legend)
        col_id == IF memoized = NoneColumn THEN find_geometry_column(fields) ELSE memoized
        memo == IF memoized = NoneColumn
                THEN [l \in DOMAIN legend_to_col_id \cup {legend} |->
                        IF l = legend THEN col_id ELSE legend_to_col_id[l]]
                ELSE legend_to_col_id
    IN  IF col_id = NO_GEOMETRY_COLUMN
        THEN [raised |-> FALSE, value |-> "None", legend_to_col_id |-> memo]
        ELSE IF col_id = NoneColumn \/ col_id.index \notin DOMAIN fields
        THEN [raised |-> TRUE, value |-> "None", legend_to_col_id |-> memo]
        ELSE [raised |-> FALSE, value |-> fields[col_id.index], legend_to_col_id |-> memo]

----------------------------------------------------------------------------
(* Envelopes (w, s, e, n) in fixed point; None is <<>> *)

\* one degree, in the unit of the coordinates: a twentieth of a degree, so
\* that the buffers of a tenth of a degree and of a tenth of half a degree
\* are whole numbers
Degree == 20

Min(a, b) == IF a <= b THEN a ELSE b
Max(a, b) == IF a >= b THEN a ELSE b

\* _unwrap_lon_envelope: w stays, e exceeds w by the true size of the range
unwrap_lon_envelope(w, e) == IF w <= e THEN <<w, e>> ELSE <<w, e + 360 * Degree>>

\* _wrap_lon: (x + 180) % 360 - 180, in [-180, 180)
wrap_lon(x) == ((x + 180 * Degree) % (360 * Degree)) - 180 * Degree

\* math.isclose(a, b, abs_tol=1e-3): two coordinates a twentieth of a degree
\* or more apart are not that close
isclose(a, b) == a = b

\* _wrap_lon_envelope: both ends wrapped; they keep their order when their
\* distance is still e - w, and are swapped otherwise
wrap_lon_envelope(w, e) ==
    LET wrapped_w == wrap_lon(w)
        wrapped_e == wrap_lon(e)
        min_x == Min(wrapped_w, wrapped_e)
        max_x == Max(wrapped_w, wrapped_e)
    IN  IF isclose(max_x - min_x, e - w) THEN <<min_x, max_x>> ELSE <<max_x, min_x>>

\* union_of_envelopes: env2 is tried shifted by -360, 0 and 360; the first
\* shift of the smallest width gives the longitudes
union_of_envelopes(env1, env2) ==
    IF env1 = <<>> THEN env2
    ELSE IF env2 = <<>> THEN env1
    ELSE
    LET r1 == unwrap_lon_envelope(env1[1], env1[3])
        r2 == unwrap_lon_envelope(env2[1], env2[3])
        potential(shift) == <<Min(r1[1], r2[1] + shift), Max(r1[2], r2[2] + shift)>>
        potential_width(shift) == potential(shift)[2] - potential(shift)[1]
        shift == IF potential_width(-360 * Degree) <= potential_width(0)
                        /\ potential_width(-360 * Degree) <= potential_width(360 * Degree)
                 THEN -360 * Degree
                 ELSE IF potential_width(0) <= potential_width(360 * Degree) THEN 0
                 ELSE 360 * Degree
        width == potential_width(shift)
        result_s == Min(env1[2], env2[2])
        result_n == Max(env1[4], env2[4])
        wrapped == wrap_lon_envelope(potential(shift)[1], potential(shift)[2])
    IN  IF width >= 360 * Degree THEN <<-180 * Degree, result_s, 180 * Degree, result_n>>
        ELSE <<wrapped[1], result_s, wrapped[2], result_n>>

----------------------------------------------------------------------------
(* transform_minmax_envelope: rings are sequences of points <<x, y>> *)

\* transform.TransformPoint: the library's conversion to EPSG:4326, which the
\* source does not hold.  The transforms of the model keep the latitude and
\* move the longitude by an offset and by skew times the latitude (a skew of 0
\* is a CRS with another prime meridian, a skew of 1 bends the meridians as an
\* equal-area projection does); most return longitudes wrapped into
\* [-180, 180), some return them as they come
TransformPoint(transform, x, y) ==
    LET lon == x + transform.skew * y + transform.offset
    IN  <<IF transform.wraps THEN wrap_lon(lon) ELSE lon, y>>

\* ring.Transform(transform)
TransformRing(ring, transform) ==
    [i \in DOMAIN ring |-> TransformPoint(transform, ring[i][1], ring[i][2])]

\* _transpose_gpkg_or_ogr_envelope: (min-x, max-x, min-y, max-y) to (min-x, min-y, max-x, max-y)
transpose_gpkg_or_ogr_envelope(envelope) ==
    <<envelope[1], envelope[3], envelope[2], envelope[4]>>

\* ring.GetEnvelope(), in (min-x, max-x, min-y, max-y) order
GetEnvelope(ring) ==
    LET low(axis) == CHOOSE v \in {ring[i][axis] : i \in DOMAIN ring} :
                        \A j \in DOMAIN ring : v <= ring[j][axis]
        high(axis) == CHOOSE v \in {ring[i][axis] : i \in DOMAIN ring} :
                        \A j \in DOMAIN ring : v >= ring[j][axis]
    IN  <<low(1), high(1), low(2), high(2)>>

get_ogr_envelope(ogr_geometry) == transpose_gpkg_or_ogr_envelope(GetEnvelope(ogr_geometry))

\* _minmax_envelope_dimensions: (width, height)
minmax_envelope_dimensions(envelope) ==
    <<envelope[3] - envelope[1], envelope[4] - envelope[2]>>

\* _buffer_minmax_envelope: the latitudes stay within [-90, 90]
buffer_minmax_envelope(envelope, buffer) ==
    <<envelope[1] - buffer, Max(envelope[2] - buffer, -90 * Degree),
      envelope[3] + buffer, Min(envelope[4] + buffer, 90 * Degree)>>

\* ring.Segmentize on one side: the side from a to b cut into pieces equal
\* pieces, the points after a (coordinates rounded down to the unit)
SegmentizedSide(a, b, pieces) ==
    [k \in 1 .. pieces |-> <<a[1] + ((b[1] - a[1]) * k) \div pieces,
                            a[2] + ((b[2] - a[2]) * k) \div pieces>>]

\* anticlockwise_ring_from_minmax_envelope; segments_per_side = 0 is None.
\* segment_length is larger_side / segments_per_side when the smaller side is
\* under a quarter of the larger one and smaller_side / segments_per_side
\* otherwise, and no piece of a side is longer than segment_length
anticlockwise_ring_from_minmax_envelope(envelope, segments_per_side) ==
    LET corners == <<<<envelope[1], envelope[2]>>, <<envelope[3], envelope[2]>>,
                     <<envelope[3], envelope[4]>>, <<envelope[1], envelope[4]>>,
                     <<envelope[1], envelope[2]>>>>
        dimensions == minmax_envelope_dimensions(envelope)
        larger_side == Max(dimensions[1], dimensions[2])
        smaller_side == Min(dimensions[1], dimensions[2])
        numerator == IF 4 * smaller_side < larger_side THEN larger_side ELSE smaller_side
        length(i) == IF i \in {1, 3} THEN dimensions[1] ELSE dimensions[2]
        pieces(i) == Max(1, CeilDiv(length(i) * segments_per_side, numerator))
        side(i) == SegmentizedSide(corners[i], corners[i + 1], pieces(i))
    IN  IF segments_per_side = 0 THEN corners
        ELSE <<corners[1]>> \o side(1) \o side(2) \o side(3) \o side(4)

\* the sum of the shoelace formula over the points i .. Len(ring) - 1
RECURSIVE ShoelaceSum(_, _)
ShoelaceSum(ring, i) ==
    IF i >= Len(ring) THEN 0
    ELSE ring[i][1] * ring[i + 1][2] - ring[i + 1][1] * ring[i][2] + ShoelaceSum(ring, i + 1)

\* _is_clockwise
is_clockwise(ring) == ShoelaceSum(ring, 1) < 0

\* _is_anticlockwise
is_anticlockwise(ring) == ~is_clockwise(ring)

\* _reinterpret_to_be_east_of: 360 degrees are added to the points west of
\* split_x.  split_x is a mean of two coordinates and is held doubled
reinterpret_to_be_east_of(split_x, ring) ==
    [i \in DOMAIN ring |-> IF 2 * ring[i][1] < split_x
                           THEN <<ring[i][1] + 360 * Degree, ring[i][2]>>
                           ELSE ring[i]]

\* sorted(set(...))
RECURSIVE sorted(_)
sorted(values) ==
    IF values = {} THEN <<>>
    ELSE LET least == CHOOSE v \in values : \A u \in values : v <= u
         IN  <<least>> \o sorted(values \ {least})

\* the loop of _fix_ring_winding_order from the i-th split_x option on: every
\* option is applied to the ring as the options before it left it
RECURSIVE try_split_x_options(_, _, _)
try_split_x_options(ring, sorted_x_values, i) ==
    IF i >= Len(sorted_x_values)
    THEN [raised |-> TRUE, shifted |-> FALSE, split_x |-> 0, ring |-> ring]
    ELSE LET split_x == sorted_x_values[i] + sorted_x_values[i + 1]
             reinterpreted == reinterpret_to_be_east_of(split_x, ring)
         IN  IF is_anticlockwise(reinterpreted)
             THEN [raised |-> FALSE, shifted |-> TRUE, split_x |-> split_x,
                   ring |-> reinterpreted]
             ELSE try_split_x_options(reinterpreted, sorted_x_values, i + 1)

\* _fix_ring_winding_order: the ring as it is left and the split_x returned
\* (shifted is FALSE when None is returned, raised is the AssertionError)
fix_ring_winding_order(ring) ==
    IF is_anticlockwise(ring)
    THEN [raised |-> FALSE, shifted |-> FALSE, split_x |-> 0, ring |-> ring]
    ELSE try_split_x_options(ring, sorted({ring[i][1] : i \in DOMAIN ring}), 1)

\* transform_minmax_envelope with buffer_for_curvature=True: value is the
\* envelope (w, s, e, n) or <<>> for None, raised tells that an exception left it
transform_minmax_envelope(envelope, transform) ==
    LET point == TransformPoint(transform, envelope[1], envelope[2])
        x == wrap_lon(point[1])
        ring == TransformRing(anticlockwise_ring_from_minmax_envelope(envelope, 0), transform)
        first_dimensions == minmax_envelope_dimensions(get_ogr_envelope(ring))
        fixed == IF first_dimensions[1] >= 180 * Degree /\ is_clockwise(ring)
                 THEN fix_ring_winding_order(ring)
                 ELSE [raised |-> FALSE, shifted |-> FALSE, split_x |-> 0, ring |-> ring]
        transformed_envelope == get_ogr_envelope(fixed.ring)
        width == minmax_envelope_dimensions(transformed_envelope)[1]
        height == minmax_envelope_dimensions(transformed_envelope)[2]
        biggest_dimension == Max(width, height)
        segments_per_side == Max(10, CeilDiv(biggest_dimension, Degree))
        segmentized == TransformRing(
            anticlockwise_ring_from_minmax_envelope(envelope, segments_per_side), transform)
        reinterpreted == IF fixed.shifted
                         THEN reinterpret_to_be_east_of(fixed.split_x, segmentized)
                         ELSE segmentized
        buffered == IF biggest_dimension < Degree
                    THEN buffer_minmax_envelope(transformed_envelope, biggest_dimension \div 10)
                    ELSE buffer_minmax_envelope(get_ogr_envelope(reinterpreted), Degree \div 10)
    IN  IF envelope[1] = envelope[3] /\ envelope[2] = envelope[4]
        THEN [raised |-> FALSE, value |-> <<x, point[2], x, point[2]>>]
        ELSE IF fixed.raised THEN [raised |-> TRUE, value |-> <<>>]
        ELSE IF width >= 180 * Degree THEN [raised |-> FALSE, value |-> <<>>]
        ELSE [raised |-> FALSE,
              value |-> <<wrap_lon(buffered[1]), buffered[2], wrap_lon(buffered[3]), buffered[4]>>]

\* the loop of get_envelope_for_indexing over transforms[i ..], result being
\* the union so far: None as soon as a transform gives None or raises
RECURSIVE envelope_over_transforms(_, _, _, _)
envelope_over_transforms(minmax_envelope, transforms, i, result) ==
    IF i > Len(transforms) THEN result
    ELSE LET envelope == transform_minmax_envelope(minmax_envelope, transforms[i])
         IN  IF envelope.raised \/ envelope.value = <<>> THEN <<>>
             ELSE envelope_over_transforms(minmax_envelope, transforms, i + 1,
                                           union_of_envelopes(result, envelope.value))

\* get_envelope_for_indexing on the envelope of the geometry, which comes in
\* (min-x, max-x, min-y, max-y) order.  <<>> stands for a geometry whose
\* envelope() raises: the exception is caught with all the others at
\* index.py:577-579 and None is returned
envelope_for_indexing(geom_envelope, transforms) ==
    IF geom_envelope = <<>> THEN <<>>
    ELSE envelope_over_transforms(transpose_gpkg_or_ogr_envelope(geom_envelope),
                                  transforms, 1, <<>>)

\* the assertions of EnvelopeEncoder._encode_value (index.py:526) on the four
\* values of an envelope: encode raises AssertionError when one of them fails
encode_raises(envelope) ==
    \/ envelope[1] < -180 * Degree \/ envelope[1] > 180 * Degree
    \/ envelope[2] < -90 * Degree \/ envelope[2] > 90 * Degree
    \/ envelope[3] < -180 * Degree \/ envelope[3] > 180 * Degree
    \/ envelope[4] < -90 * Degree \/ envelope[4] > 90 * Degree

----------------------------------------------------------------------------
(* The object graph queries *)

\* faulty variant: the commit set is stored as given, merge-base --independent skipped
commit_set_as_given(S) == S

\* git merge-base --independent: the given commits except those reachable
\* from another of them
minimal_description_of_commit_set(S) ==
    {c \in S : \A d \in S : c \notin AncestorsOf(d)}

\* faulty variant: the commits already indexed are not taken out of the commits to walk
build_on_last_index_restarts(requested, commits_table, clear_existing) ==
    LET stop == IF ~clear_existing /\ commits_table.exists
                THEN commits_table.rows ELSE {}
        independent == minimal_description_of_commit_set(requested \cup stop)
    IN  [start_commits |-> independent,
         stop_commits |-> stop,
         all_independent_commits |-> independent]

\* _build_on_last_index: (start_commits, stop_commits, all_independent_commits)
build_on_last_index(requested, commits_table, clear_existing) ==
    LET stop == IF ~clear_existing /\ commits_table.exists
                THEN commits_table.rows ELSE {}
        independent == minimal_description_of_commit_set(requested \cup stop)
    IN  [start_commits |-> independent \ stop,
         stop_commits |-> stop,
         all_independent_commits |-> independent]

\* git rev-list --objects start --not stop lists every blob reachable from
\* start and not from stop; it may list more, but only blobs of the trees of
\* the commits it walks (those reachable from start and not from stop)
RevListMust(start, stop) == BlobsOf(start) \ BlobsOf(stop)
RevListMay(start, stop) == UNION {Tree(c) : c \in Reach(start) \ Reach(stop)}

\* iter_feature_oids: the sets of blobs the stream can consist of
iter_feature_oids(start, stop) ==
    {S \in SUBSET RevListMay(start, stop) : RevListMust(start, stop) \subseteq S}

----------------------------------------------------------------------------
(* The index store *)

AbsentTable == [exists |-> FALSE, rows |-> {}]

\* faulty variant: the statement leaves the new row alone in the table
insert_or_replace_only(rows, blob_id, envelope) ==
    [ok |-> TRUE, rows |-> {[blob_id |-> blob_id, envelope |-> envelope]}]

\* INSERT OR REPLACE INTO feature_envelopes (blob_id, envelope): blob_id is
\* the primary key, so a row with the same blob_id is replaced
insert_or_replace(rows, blob_id, envelope) ==
    [ok |-> TRUE,
     rows |-> {r \in rows : r.blob_id # blob_id}
                \cup {[blob_id |-> blob_id, envelope |-> envelope]}]

\* SELECT length(envelope) FROM feature_envelopes LIMIT 1: the lengths the
\* query can return, 0 standing for no row
envelope_length(rows) ==
    IF rows = {} THEN {0} ELSE {r.envelope.length : r \in rows}

\* faulty variant: the encoder is always built with the default
encoder_bits_default(length) == DEFAULT_BITS_PER_VALUE

\* bits_per_value handed to EnvelopeEncoder (index.py:313) and resolved by
\* its constructor
encoder_bits(length) ==
    IF length # 0 THEN (length * 8) \div 4 ELSE DEFAULT_BITS_PER_VALUE

----------------------------------------------------------------------------
(* update_spatial_filter_index, step by step *)

\* the commit sets a run can be asked to index
Requests == {S \in SUBSET Commits : S # {} /\ Cardinality(S) <= MaxRequest}

NoTx == [commits |-> {}, feature_envelopes |-> {}]
NoArgs == [commits |-> {}, clear_existing |-> FALSE, dry_run |-> FALSE]
Tainted == [clean |-> FALSE, runs |-> <<>>]
NoPre == [commits |-> AbsentTable, feature_envelopes |-> AbsentTable]
\* no pure function is under study while the indexer runs
NoCalc == [op |-> "none"]

\* the index file does not exist yet and no run is under way
InitIndexer ==
    /\ commits = AbsentTable
    /\ feature_envelopes = AbsentTable
    /\ pc = "idle"
    /\ args = NoArgs
    /\ start_commits = {}
    /\ stop_commits = {}
    /\ all_independent_commits = {}
    /\ bits_per_value = DEFAULT_BITS_PER_VALUE
    /\ stream = {}
    /\ tx = NoTx
    /\ seen = {}
    /\ upserted = {}
    /\ walk_failed = FALSE
    /\ outcome = "none"
    /\ pre = NoPre
    /\ trail = [clean |-> TRUE, runs |-> <<>>]

Init ==
    /\ InitIndexer
    /\ calc = NoCalc

\* what the study of a pure function leaves alone
indexerVars == <<commits, feature_envelopes, pc, args, start_commits, stop_commits,
                 all_independent_commits, bits_per_value, stream, tx, seen,
                 upserted, walk_failed, outcome, pre, trail>>

\* the run leaves the function: its locals are gone
EndRun(how) ==
    /\ pc' = "idle"
    /\ outcome' = how
    /\ args' = NoArgs
    /\ start_commits' = {}
    /\ stop_commits' = {}
    /\ all_independent_commits' = {}
    /\ bits_per_value' = DEFAULT_BITS_PER_VALUE
    /\ stream' = {}
    /\ tx' = NoTx
    /\ seen' = {}
    /\ upserted' = {}
    /\ walk_failed' = FALSE
    /\ pre' = NoPre

\* index.py:284-292: a run starts and resolves the frontier from the
\* requested commits and the rows of `commits`
StartRun ==
    /\ pc = "idle"
    /\ \E requested \in Requests, clear_existing \in BOOLEAN, dry_run \in BOOLEAN :
        LET r == build_on_last_index(requested, commits, clear_existing) IN
        /\ args' = [commits |-> requested, clear_existing |-> clear_existing,
                    dry_run |-> dry_run]
        /\ start_commits' = r.start_commits
        /\ stop_commits' = r.stop_commits
        /\ all_independent_commits' = r.all_independent_commits
    /\ pre' = [commits |-> commits, feature_envelopes |-> feature_envelopes]
    /\ pc' = "resolved"
    /\ outcome' = "running"
    /\ UNCHANGED <<commits, feature_envelopes, bits_per_value, stream, tx, seen,
                   upserted, walk_failed, trail>>
    /\ UNCHANGED calc

\* index.py:294-296: no commit is left to index
NothingToDo ==
    /\ pc = "resolved"
    /\ start_commits = {}
    /\ EndRun("up_to_date")
    /\ trail' = Tainted
    /\ UNCHANGED <<commits, feature_envelopes>>
    /\ UNCHANGED calc

\* index.py:189: DROP TABLE IF EXISTS commits, committed as it is executed
DropCommits ==
    /\ pc = "resolved"
    /\ start_commits # {}
    /\ args.clear_existing
    /\ commits' = AbsentTable
    /\ pc' = "drop_feature_envelopes"
    /\ UNCHANGED <<feature_envelopes, args, start_commits, stop_commits,
                   all_independent_commits, bits_per_value, stream, tx, seen,
                   upserted, walk_failed, outcome, pre, trail>>
    /\ UNCHANGED calc

\* index.py:190: DROP TABLE IF EXISTS feature_envelopes, committed as it is executed
DropFeatureEnvelopes ==
    /\ pc = "drop_feature_envelopes"
    /\ feature_envelopes' = AbsentTable
    /\ pc' = "create_all"
    /\ UNCHANGED <<commits, args, start_commits, stop_commits,
                   all_independent_commits, bits_per_value, stream, tx, seen,
                   upserted, walk_failed, outcome, pre, trail>>
    /\ UNCHANGED calc

\* index.py:308-314: CREATE TABLE IF NOT EXISTS for both tables, then the
\* encoder is built from the length of an existing envelope
CreateAll ==
    /\ \/ pc = "create_all"
       \/ pc = "resolved" /\ start_commits # {} /\ ~args.clear_existing
    /\ commits' = [commits EXCEPT !.exists = TRUE]
    /\ feature_envelopes' = [feature_envelopes EXCEPT !.exists = TRUE]
    /\ \E length \in envelope_length(feature_envelopes.rows) :
        bits_per_value' = encoder_bits(length)
    /\ pc' = "banner"
    /\ UNCHANGED <<args, start_commits, stop_commits, all_independent_commits,
                   stream, tx, seen, upserted, walk_failed, outcome, pre, trail>>
    /\ UNCHANGED calc

\* index.py:325-327: a dry run exits after the banner
DryRunExit ==
    /\ pc = "banner"
    /\ args.dry_run
    /\ EndRun("dry_run")
    /\ trail' = Tainted
    /\ UNCHANGED <<commits, feature_envelopes>>
    /\ UNCHANGED calc

\* index.py:335-339: the sqlite connection opens its transaction and the
\* rev-list subprocess starts
OpenTransaction ==
    /\ pc = "banner"
    /\ ~args.dry_run
    /\ tx' = [commits |-> commits.rows, feature_envelopes |-> feature_envelopes.rows]
    /\ stream' \in iter_feature_oids(start_commits, stop_commits)
    /\ pc' = "walk"
    /\ UNCHANGED <<commits, feature_envelopes, args, start_commits, stop_commits,
                   all_independent_commits, bits_per_value, seen, upserted,
                   walk_failed, outcome, pre, trail>>
    /\ UNCHANGED calc

\* index.py:343-351: the envelope to store for a feature, <<>> when the
\* feature is skipped
envelope_to_index(feature_oid) ==
    LET transforms == transforms_for_dataset(DsPathOf(feature_oid))
        \* get_geometry: every feature of this repository has a Geometry value
        geom == GeometryOf(feature_oid)
    IN  IF transforms = {} THEN <<>>
        ELSE IF geom = "none" \/ geom = "empty" THEN <<>>
        ELSE get_envelope_for_indexing(feature_oid, transforms)

\* index.py:339-357: one iteration of the loop over feature_oid_iter
IndexFeature ==
    /\ pc = "walk"
    /\ \E feature_oid \in stream :
        LET envelope == envelope_to_index(feature_oid)
            r == insert_or_replace(tx.feature_envelopes, feature_oid,
                                   encode(bits_per_value, envelope))
        IN  IF envelope = <<>>
            THEN /\ stream' = stream \ {feature_oid}
                 /\ seen' = seen \cup {feature_oid}
                 /\ UNCHANGED <<tx, upserted, pc, outcome, trail, args,
                                start_commits, stop_commits,
                                all_independent_commits, bits_per_value,
                                walk_failed, pre>>
            ELSE IF r.ok
            THEN /\ stream' = stream \ {feature_oid}
                 /\ seen' = seen \cup {feature_oid}
                 /\ tx' = [tx EXCEPT !.feature_envelopes = r.rows]
                 /\ upserted' = upserted \cup {feature_oid}
                 /\ UNCHANGED <<pc, outcome, trail, args, start_commits,
                                stop_commits, all_independent_commits,
                                bits_per_value, walk_failed, pre>>
            ELSE \* the statement fails: the exception leaves `with db`, which rolls back
                 /\ EndRun("store_error")
                 /\ trail' = Tainted
    /\ UNCHANGED <<commits, feature_envelopes>>
    /\ UNCHANGED calc

\* index.py:193-206: the rev-list subprocess dies before it has listed every
\* blob.  Its exit status is never read (Popen raises no CalledProcessError),
\* so the generator just ends
WalkerDies ==
    /\ pc = "walk"
    /\ stream # {}
    /\ stream' = {}
    /\ walk_failed' = TRUE
    /\ UNCHANGED <<commits, feature_envelopes, pc, args, start_commits,
                   stop_commits, all_independent_commits, bits_per_value, tx,
                   seen, upserted, outcome, pre, trail>>
    /\ UNCHANGED calc

\* faulty variant: the frontier is written through a connection that commits each
\* statement, before the transaction of the upserts commits
ReplaceFrontierOutsideTransaction ==
    /\ pc = "walk"
    /\ stream = {}
    /\ commits' = [commits EXCEPT !.rows = all_independent_commits]
    /\ tx' = [tx EXCEPT !.commits = all_independent_commits]
    /\ pc' = "commit"
    /\ UNCHANGED <<feature_envelopes, args, start_commits, stop_commits,
                   all_independent_commits, bits_per_value, stream, seen,
                   upserted, walk_failed, outcome, pre, trail>>
    /\ UNCHANGED calc

\* index.py:359-362: DELETE FROM commits, then INSERT every commit of
\* all_independent_commits, inside the transaction
ReplaceFrontier ==
    /\ pc = "walk"
    /\ stream = {}
    /\ tx' = [tx EXCEPT !.commits = all_independent_commits]
    /\ pc' = "commit"
    /\ UNCHANGED <<commits, feature_envelopes, args, start_commits, stop_commits,
                   all_independent_commits, bits_per_value, stream, seen,
                   upserted, walk_failed, outcome, pre, trail>>
    /\ UNCHANGED calc

\* trail entries: an indexing run that completed with nothing failing, and
\* the deletion of the rows of `commits`
IndexRun(requested, clear_existing) ==
    [kind |-> "index", commits |-> requested, clear_existing |-> clear_existing]
RowsDeleted == [kind |-> "delete", commits |-> {}, clear_existing |-> FALSE]

IndexRunsOf(runs) == SelectSeq(runs, LAMBDA e : e.kind = "index")

\* the trail after a completed indexing run
TrailAfterCommit ==
    IF trail.clean /\ Len(IndexRunsOf(trail.runs)) < MaxTrail
    THEN [trail EXCEPT !.runs = Append(@, IndexRun(args.commits, args.clear_existing))]
    ELSE Tainted

\* index.py:336: `with db` ends without an exception and commits the transaction
Commit ==
    /\ pc = "commit"
    /\ commits' = [exists |-> TRUE, rows |-> tx.commits]
    /\ feature_envelopes' = [exists |-> TRUE, rows |-> tx.feature_envelopes]
    /\ EndRun("indexed")
    /\ trail' = TrailAfterCommit
    /\ UNCHANGED calc

\* a fatal error, a cancellation or a crash at any point of the run: an open
\* transaction is rolled back, what was committed stays
Abort ==
    /\ pc # "idle"
    /\ EndRun("aborted")
    /\ trail' = Tainted
    /\ UNCHANGED <<commits, feature_envelopes>>
    /\ UNCHANGED calc

\* tests/test_spatial_tree.py:126-129: between two runs the rows of `commits`
\* are deleted by hand, to force everything to be indexed again
DeleteCommitRows ==
    /\ pc = "idle"
    /\ commits.exists
    /\ commits.rows # {}
    /\ commits' = [commits EXCEPT !.rows = {}]
    /\ outcome' = "none"
    /\ trail' = IF trail.clean /\ RowsDeleted \notin {trail.runs[k] : k \in DOMAIN trail.runs}
                THEN [trail EXCEPT !.runs = Append(@, RowsDeleted)]
                ELSE Tainted
    /\ UNCHANGED <<feature_envelopes, pc, args, start_commits, stop_commits,
                   all_independent_commits, bits_per_value, stream, tx, seen,
                   upserted, walk_failed, pre>>
    /\ UNCHANGED calc

Next ==
    \/ StartRun
    \/ NothingToDo
    \/ DropCommits
    \/ DropFeatureEnvelopes
    \/ CreateAll
    \/ DryRunExit
    \/ OpenTransaction
    \/ IndexFeature
    \/ WalkerDies
    \/ ReplaceFrontier
    \/ Commit
    \/ Abort

\* any sequence of index runs
Spec == Init /\ [][Next]_vars

\* any sequence of index runs in which the rev-list subprocess never dies
NextWalkerReliable ==
    \/ StartRun
    \/ NothingToDo
    \/ DropCommits
    \/ DropFeatureEnvelopes
    \/ CreateAll
    \/ DryRunExit
    \/ OpenTransaction
    \/ IndexFeature
    \/ ReplaceFrontier
    \/ Commit
    \/ Abort

SpecWalkerReliable == Init /\ [][NextWalkerReliable]_vars

\* index runs, and between them the rows of `commits` deleted by hand
NextReindex ==
    \/ Next
    \/ DeleteCommitRows

SpecReindex == Init /\ [][NextReindex]_vars

\* the index file was written earlier, with envelopes of another length: it
\* holds c1 and the envelope of b1
InitLegacyIndex ==
    /\ commits = [exists |-> TRUE, rows |-> {"c1"}]
    /\ feature_envelopes =
        [exists |-> TRUE,
         rows |-> {[blob_id |-> "b1",
                    envelope |-> encode(2 * LegacyEnvelopeLength,
                                        BuiltEnvelopeOf("b1"))]}]
    /\ pc = "idle"
    /\ args = NoArgs
    /\ start_commits = {}
    /\ stop_commits = {}
    /\ all_independent_commits = {}
    /\ bits_per_value = DEFAULT_BITS_PER_VALUE
    /\ stream = {}
    /\ tx = NoTx
    /\ seen = {}
    /\ upserted = {}
    /\ walk_failed = FALSE
    /\ outcome = "none"
    /\ pre = NoPre
    /\ trail = Tainted
    /\ calc = NoCalc

SpecLegacyIndex == InitLegacyIndex /\ [][Next]_vars

----------------------------------------------------------------------------
(* union_of_envelopes applied to two envelopes *)

\* the longitudes and the (s, n) pairs of the envelopes given to the union
UnionLongitudes ==
    {-180 * Degree, -180 * Degree + Degree \div 2, -170 * Degree, -160 * Degree,
     -100 * Degree, 0, 10 * Degree, 100 * Degree, 160 * Degree, 170 * Degree,
     175 * Degree, 180 * Degree - Degree \div 2, 180 * Degree}
UnionLatitudes1 == {<<0, 10 * Degree>>, <<-Degree, Degree>>}
UnionLatitudes2 == {<<-10 * Degree, 10 * Degree>>, <<0, 10 * Degree>>}

\* wrapped envelopes: longitudes in [-180, 180], e < w when the envelope
\* wraps across the antimeridian, s <= n
UnionEnvelopes(latitudes) ==
    {<<w, l[1], e, l[2]>> : w \in UnionLongitudes, e \in UnionLongitudes, l \in latitudes}

InitUnion ==
    /\ InitIndexer
    /\ \E env1 \in UnionEnvelopes(UnionLatitudes1) \cup {<<>>},
          env2 \in UnionEnvelopes(UnionLatitudes2) :
        calc = [op |-> "union", stage |-> "envelopes", env1 |-> env1, env2 |-> env2,
                result |-> <<>>]

\* index.py:576: result = union_of_envelopes(result, envelope)
UnionOfEnvelopes ==
    /\ calc.op = "union"
    /\ calc.stage = "envelopes"
    /\ calc' = [calc EXCEPT !.stage = "united",
                            !.result = union_of_envelopes(calc.env1, calc.env2)]
    /\ UNCHANGED indexerVars

NextUnion == UnionOfEnvelopes

SpecUnion == InitUnion /\ [][NextUnion]_vars

----------------------------------------------------------------------------
(* get_envelope_for_indexing applied to the envelope of a geometry *)

\* the envelopes of the geometries, (min-x, max-x, min-y, max-y) in the
\* coordinates of the dataset: points, lines along an axis and rectangles from
\* half a degree to 200 degrees wide.  The coordinates are what the dataset
\* holds: nothing keeps a latitude within 90 degrees
GeometryEnvelopes ==
    {<<x, x + width, y, y + height>> :
        x \in {-10 * Degree, 170 * Degree, 175 * Degree},
        width \in {0, Degree \div 2, 5 * Degree, 20 * Degree, 200 * Degree},
        y \in {-10 * Degree, 0, 89 * Degree, 95 * Degree},
        height \in {0, Degree \div 2, Degree, 30 * Degree}}

Transforms ==
    [offset : {0, 10 * Degree}, skew : {0, 1}, wraps : BOOLEAN]

\* the transforms of a dataset: one per CRS definition it ever had
TransformLists ==
    {<<t>> : t \in Transforms} \cup {<<t, u>> : t \in Transforms, u \in Transforms}

InitEnvelope ==
    /\ InitIndexer
    /\ \E geom_envelope \in GeometryEnvelopes, transforms \in TransformLists :
        calc = [op |-> "envelope", stage |-> "geometry",
                geom_envelope |-> geom_envelope, transforms |-> transforms,
                result |-> <<>>]

\* index.py:349: envelope = get_envelope_for_indexing(geom, transforms, feature_oid)
GetEnvelopeForIndexing ==
    /\ calc.op = "envelope"
    /\ calc.stage = "geometry"
    /\ calc' = [calc EXCEPT !.stage = "built",
                            !.result = envelope_for_indexing(calc.geom_envelope,
                                                             calc.transforms)]
    /\ UNCHANGED indexerVars

NextEnvelope == GetEnvelopeForIndexing

SpecEnvelope == InitEnvelope /\ [][NextEnvelope]_vars

----------------------------------------------------------------------------
(* The envelope of one blob over successive runs, while the dataset gains CRS
   definitions: each run loads one transform per CRS definition it finds *)

\* the CRS definitions a dataset has had, at most
MaxCrs == 2

\* the envelopes of the geometries, (min-x, max-x, min-y, max-y): points and
\* rectangles of 5 and of 169.8 degrees, away from and next to the antimeridian
RewrittenGeometries ==
    {<<x, x + width, 0, Degree>> :
        x \in {5 * Degree, 170 * Degree},
        width \in {0, 5 * Degree, 170 * Degree - 4}}

\* the transforms of the CRS definitions the dataset can get
RewriteTransforms == {t \in Transforms : t.skew = 0}

\* index.py:84-85: `for crs_oid in set(...)` visits the CRS definitions in the
\* order of the hashes of their ids, which differs from process to process
IterationOrders(crs) ==
    {t \in [1 .. Cardinality(crs) -> crs] : {t[k] : k \in DOMAIN t} = crs}

InitRewrite ==
    /\ InitIndexer
    /\ \E geom_envelope \in RewrittenGeometries, t \in RewriteTransforms :
        calc = [op |-> "rewrite", geom_envelope |-> geom_envelope,
                crs |-> {t}, stored |-> <<>>]

\* a commit gives the dataset another CRS definition
AddCrsDefinition ==
    /\ calc.op = "rewrite"
    /\ Cardinality(calc.crs) < MaxCrs
    /\ \E t \in RewriteTransforms \ calc.crs :
        calc' = [calc EXCEPT !.crs = calc.crs \cup {t}]
    /\ UNCHANGED indexerVars

\* index.py:343-357 in a run that meets the blob: no envelope leaves the row
\* as it is, an envelope the encoder refuses ends the run and rolls it back
IndexBlob ==
    /\ calc.op = "rewrite"
    /\ \E transforms \in IterationOrders(calc.crs) :
        LET stored_with(envelope) ==
                IF envelope = <<>> \/ encode_raises(envelope)
                THEN calc
                ELSE [calc EXCEPT !.stored = envelope]
        IN  calc' = stored_with(envelope_for_indexing(calc.geom_envelope, transforms))
    /\ UNCHANGED indexerVars

NextRewrite == AddCrsDefinition \/ IndexBlob

SpecRewrite == InitRewrite /\ [][NextRewrite]_vars

----------------------------------------------------------------------------
(* The older indexer, update_spatial_tree of spatial_tree.py, over the same
   repository: one row (blob_id, w, s, e, n) per feature in `blobs` *)

\* what geom.envelope(only_2d=True, calculate_if_missing=True) returns for the
\* geometry of a blob, in (w, e, s, n) order
GeomEnvelopeOf(b) ==
    CASE b = "b1" -> <<174 * Degree, 175 * Degree, -42 * Degree, -41 * Degree>>
      [] b = "b2" -> <<170 * Degree, 175 * Degree, -10 * Degree, 10 * Degree>>
      [] b = "b5" -> <<-10 * Degree, 190 * Degree, 0, Degree>>
      [] OTHER    -> <<0, 0, 0, 0>>

\* the transforms CrsHelper loads for a dataset, as the older indexer gets them
tree_transforms_for_dataset(ds_path) ==
    IF ds_path = "roads"
    THEN <<[offset |-> 0, skew |-> 0, wraps |-> TRUE],
           [offset |-> 10 * Degree, skew |-> 0, wraps |-> TRUE]>>
    ELSE <<>>

\* spatial_tree.py:360-368: the least and greatest coordinates of the two
\* corners (w, s) and (e, n) under every transform, as (w3, s3, e3, n3)
corner_envelope(envelope, transforms) ==
    LET corners == UNION {{TransformPoint(transforms[k], envelope[1], envelope[3]),
                           TransformPoint(transforms[k], envelope[2], envelope[4])} :
                          k \in DOMAIN transforms}
        lons == {c[1] : c \in corners}
        lats == {c[2] : c \in corners}
    IN  <<CHOOSE x \in lons : \A z \in lons : x <= z,
          CHOOSE y \in lats : \A z \in lats : y <= z,
          CHOOSE x \in lons : \A z \in lons : x >= z,
          CHOOSE y \in lats : \A z \in lats : y >= z>>

\* the features of a walk that reach the INSERT: those the loop does not skip
\* for want of a transform (spatial_tree.py:350-352)
features_to_insert(walk) ==
    {b \in walk : tree_transforms_for_dataset(DsPathOf(b)) # <<>>}

\* INSERT INTO blobs (blob_id, w, s, e, n): blob_id is the primary key
\* (spatial_tree.py:190), so the statement fails on a blob_id that has a row
insert_blob(rows, row) ==
    IF \E r \in rows : r.blob_id = row.blob_id
    THEN [ok |-> FALSE, rows |-> rows]
    ELSE [ok |-> TRUE, rows |-> rows \cup {row}]

\* the loop of spatial_tree.py:346-377 over the features left of a walk, in
\* any order: the rows at its end, ok FALSE when a statement failed
RECURSIVE insert_blobs(_, _)
insert_blobs(rows, features) ==
    IF features = {} THEN [ok |-> TRUE, rows |-> rows]
    ELSE LET b == CHOOSE f \in features : TRUE
             row == [blob_id |-> b,
                     envelope |-> corner_envelope(GeomEnvelopeOf(b),
                                     tree_transforms_for_dataset(DsPathOf(b)))]
             inserted == insert_blob(rows, row)
         IN  IF inserted.ok
             THEN insert_blobs(inserted.rows, features \ {b})
             ELSE inserted

\* update_spatial_tree(repo, commits, clear_existing=...) on the tables of
\* tree, rev-list giving walk; envelope_raises tells whether geom.envelope
\* raises for an empty geometry, which the source leaves to the library.
\* An exception leaves the `with db:` block rolled back and ends the process
\* with exit code 1; the tables dropped and created before it stay so
update_spatial_tree(tree, requested, clear_existing, walk, envelope_raises) ==
    LET plan == build_on_last_index(requested, tree.commits, clear_existing)
        created == [commits |-> [exists |-> TRUE,
                                 rows |-> IF clear_existing THEN {} ELSE tree.commits.rows],
                    blobs |-> [exists |-> TRUE,
                               rows |-> IF clear_existing THEN {} ELSE tree.blobs.rows]]
        features == features_to_insert(walk)
        inserted == insert_blobs(created.blobs.rows, features)
        raises == \/ envelope_raises /\ \E b \in features : GeometryOf(b) = "empty"
                  \/ ~inserted.ok
    IN  IF plan.start_commits = {}
        THEN [commits |-> tree.commits, blobs |-> tree.blobs,
              exit_code |-> 0, nothing_to_do |-> TRUE]
        ELSE IF raises
        THEN [commits |-> created.commits, blobs |-> created.blobs,
              exit_code |-> 1, nothing_to_do |-> FALSE]
        ELSE [commits |-> [exists |-> TRUE, rows |-> plan.all_independent_commits],
              blobs |-> [exists |-> TRUE, rows |-> inserted.rows],
              exit_code |-> 0, nothing_to_do |-> FALSE]

InitSpatialTree ==
    /\ InitIndexer
    /\ calc = [op |-> "spatial_tree", event |-> "none", requested |-> {},
               clear_existing |-> FALSE,
               commits |-> AbsentTable, blobs |-> AbsentTable,
               exit_code |-> 0, nothing_to_do |-> FALSE]

\* kart spatial-tree index [--clear-existing] COMMITS
UpdateSpatialTree ==
    /\ calc.op = "spatial_tree"
    /\ \E requested \in Requests, clear_existing \in BOOLEAN, envelope_raises \in BOOLEAN :
        LET plan == build_on_last_index(requested, calc.commits, clear_existing)
        IN  \E walk \in iter_feature_oids(plan.start_commits, plan.stop_commits) :
            LET run == update_spatial_tree(calc, requested, clear_existing, walk,
                                           envelope_raises)
            IN  calc' = [calc EXCEPT !.event = "index",
                                     !.requested = requested,
                                     !.clear_existing = clear_existing,
                                     !.commits = run.commits,
                                     !.blobs = run.blobs,
                                     !.exit_code = run.exit_code,
                                     !.nothing_to_do = run.nothing_to_do]
    /\ UNCHANGED indexerVars

\* DELETE FROM commits, between two runs
DeleteTreeCommitRows ==
    /\ calc.op = "spatial_tree"
    /\ calc.commits.exists
    /\ calc.commits.rows # {}
    /\ calc' = [calc EXCEPT !.event = "delete", !.commits.rows = {}]
    /\ UNCHANGED indexerVars

NextSpatialTree == UpdateSpatialTree \/ DeleteTreeCommitRows

SpecSpatialTree == InitSpatialTree /\ [][NextSpatialTree]_vars

----------------------------------------------------------------------------
(* CrsHelper: the transforms of a dataset, loaded when its first feature
   comes and kept in ds_to_transforms for the rest of the run *)

\* the features a run takes from the walker, at most
MaxFeatures == 3

\* the CRS definitions `roads` has had: two blobs that define the same CRS
\* in other words, and one that defines another
CrsOids == {"o1", "o2", "o3"}
CrsOf(crs_oid) == IF crs_oid = "o3" THEN "B" ELSE "A"

\* crs.IsSame(c)
IsSame(crs, c) == crs.name = c.name

\* the CRS definitions of each dataset, as iter_crs_oids lists them: those of
\* `roads` are chosen with their faults, the only one of `notes` is unreadable
CrsDefinitions ==
    {[oid |-> o, readable |-> r, transformable |-> t] :
        o \in CrsOids, r \in BOOLEAN, t \in BOOLEAN}
RoadsDefinitions ==
    {D \in SUBSET CrsDefinitions : \A d, f \in D : d.oid = f.oid => d = f}
NotesDefinitions == {[oid |-> "o4", readable |-> FALSE, transformable |-> FALSE]}

\* faulty variant: a definition that fails empties what was loaded before it
load_crs_oid_or_nothing(loaded, definition) ==
    LET crs == [name |-> CrsOf(definition.oid), oid |-> definition.oid]
        known == \E k \in DOMAIN loaded.distinct_crs_list :
                     IsSame(crs, loaded.distinct_crs_list[k])
    IN  IF ~definition.readable THEN [loaded EXCEPT !.transforms = <<>>]
        ELSE IF known THEN loaded
        ELSE IF ~definition.transformable
        THEN [distinct_crs_list |-> Append(loaded.distinct_crs_list, crs),
              transforms |-> <<>>]
        ELSE [distinct_crs_list |-> Append(loaded.distinct_crs_list, crs),
              transforms |-> Append(loaded.transforms, crs)]

\* index.py:87-103, the body of the loop of _load_transforms_for_dataset:
\* crs_from_oid raises for an unreadable definition and transform_from_src_crs
\* for one that cannot be transformed, and the except clause goes on with the
\* next definition.  The transform is named by the CRS it was made from
load_crs_oid(loaded, definition) ==
    LET crs == [name |-> CrsOf(definition.oid), oid |-> definition.oid]
        known == \E k \in DOMAIN loaded.distinct_crs_list :
                     IsSame(crs, loaded.distinct_crs_list[k])
    IN  IF ~definition.readable THEN loaded
        ELSE IF known THEN loaded
        ELSE IF ~definition.transformable
        THEN [loaded EXCEPT !.distinct_crs_list = Append(@, crs)]
        ELSE [distinct_crs_list |-> Append(loaded.distinct_crs_list, crs),
              transforms |-> Append(loaded.transforms, crs)]

\* _load_transforms_for_dataset over the definitions in the order of the set
RECURSIVE load_transforms(_, _, _)
load_transforms(definitions, k, loaded) ==
    IF k > Len(definitions) THEN loaded.transforms
    ELSE load_transforms(definitions, k + 1, load_crs_oid(loaded, definitions[k]))

load_transforms_for_dataset(definitions) ==
    load_transforms(definitions, 1, [distinct_crs_list |-> <<>>, transforms |-> <<>>])

\* ds_to_transforms.get(ds_path): None for a dataset that was not loaded
NotLoaded == [loaded |-> FALSE, transforms |-> <<>>]

InitLoader ==
    /\ InitIndexer
    /\ \E roads \in RoadsDefinitions, n \in 1 .. MaxFeatures :
       \E walk \in [1 .. n -> {"roads", "notes"}] :
        calc = [op |-> "loader",
                definitions |-> [roads |-> roads, notes |-> NotesDefinitions],
                stream |-> walk, pending |-> walk,
                ds_to_transforms |-> [roads |-> NotLoaded, notes |-> NotLoaded],
                loads |-> [roads |-> 0, notes |-> 0],
                taken |-> 0, rows |-> {}, skipped |-> {}]

\* index.py:339-357 for one feature: transforms_for_dataset (index.py:73-78)
\* loads when the dataset has no entry in ds_to_transforms, then the feature
\* of a dataset without transforms is skipped and another gets its row
LoadAndIndexFeature ==
    /\ calc.op = "loader"
    /\ calc.pending # <<>>
    /\ LET ds_path == Head(calc.pending)
           cached == calc.ds_to_transforms[ds_path]
       IN  \E definitions \in IterationOrders(calc.definitions[ds_path]) :
            LET transforms == IF cached.loaded THEN cached.transforms
                              ELSE load_transforms_for_dataset(definitions)
                i == calc.taken + 1
            IN  calc' = [calc EXCEPT
                    !.pending = Tail(@),
                    !.taken = i,
                    !.ds_to_transforms[ds_path] = [loaded |-> TRUE, transforms |-> transforms],
                    !.loads[ds_path] = IF cached.loaded THEN @ ELSE @ + 1,
                    !.rows = IF transforms = <<>> THEN @ ELSE @ \cup {i},
                    !.skipped = IF transforms = <<>> THEN @ \cup {i} ELSE @]
    /\ UNCHANGED indexerVars

NextLoader == LoadAndIndexFeature

SpecLoader == InitLoader /\ [][NextLoader]_vars

----------------------------------------------------------------------------
(* _fix_ring_winding_order on rings of floating-point coordinates.  The rings
   of the envelopes above lie on a grid and their sums are taken exactly;
   here every operation of _is_clockwise rounds as a float operation does.
   A coordinate is a fraction <<numerator, denominator>> as in the codec *)

\* the points of a ring, the closing point not counted, at most
MaxRingPoints == 3

FracLT(a, b) == a[1] * b[2] < b[1] * a[2]

\* the float product, difference and sum of two floats
FloatMul(a, b) == fl(a[1] * b[1], a[2] * b[2])
FloatSub(a, b) == fl(a[1] * b[2] - b[1] * a[2], a[2] * b[2])
FloatAdd(a, b) == fl(a[1] * b[2] + b[1] * a[2], a[2] * b[2])

\* the loop of _is_clockwise from the i-th point on: result += x[i] * y[i + 1] - x[i + 1] * y[i]
RECURSIVE shoelace_result(_, _, _)
shoelace_result(ring, i, result) ==
    IF i >= Len(ring) THEN result
    ELSE shoelace_result(ring, i + 1,
            FloatAdd(result, FloatSub(FloatMul(ring[i][1], ring[i + 1][2]),
                                      FloatMul(ring[i + 1][1], ring[i][2]))))

\* _is_clockwise and _is_anticlockwise, as computed
is_clockwise_float(ring) == shoelace_result(ring, 1, <<0, 1>>)[1] < 0
is_anticlockwise_float(ring) == ~is_clockwise_float(ring)

\* _reinterpret_to_be_east_of
reinterpret_float(split_x, ring) ==
    [i \in DOMAIN ring |-> IF FracLT(ring[i][1], split_x)
                           THEN <<FloatAdd(ring[i][1], <<360, 1>>), ring[i][2]>>
                           ELSE ring[i]]

\* sorted(set(...)) of floats
RECURSIVE sorted_floats(_)
sorted_floats(values) ==
    IF values = {} THEN <<>>
    ELSE LET least == CHOOSE v \in values : \A u \in values : ~FracLT(u, v)
         IN  <<least>> \o sorted_floats(values \ {least})

\* the loop of _fix_ring_winding_order from the i-th split_x option on, shifts
\* being the options tried before it
RECURSIVE try_split_x_floats(_, _, _)
try_split_x_floats(ring, sorted_x_values, i) ==
    IF i >= Len(sorted_x_values)
    THEN [returned |-> "AssertionError", shifts |-> i - 1, ring |-> ring]
    ELSE LET sum == FloatAdd(sorted_x_values[i], sorted_x_values[i + 1])
             split_x == fl(sum[1], 2 * sum[2])
             reinterpreted == reinterpret_float(split_x, ring)
         IN  IF is_anticlockwise_float(reinterpreted)
             THEN [returned |-> "split_x", shifts |-> i, ring |-> reinterpreted]
             ELSE try_split_x_floats(reinterpreted, sorted_x_values, i + 1)

\* _fix_ring_winding_order: what it returns or raises, the number of times it
\* shifted points, and the ring as it leaves it
fix_ring_winding_order_float(ring) ==
    IF is_anticlockwise_float(ring)
    THEN [returned |-> "None", shifts |-> 0, ring |-> ring]
    ELSE try_split_x_floats(ring, sorted_floats({ring[i][1] : i \in DOMAIN ring}), 1)

\* longitudes and latitudes of the points: floats of FloatPrecision bits
RingLongitudes == {<<-180, 1>>, <<0, 1>>, <<180, 1>>}
RingLatitudes == {<<0, 1>>, <<129, 16>>, <<131, 8>>, <<201, 4>>}

\* the closed rings: the first point stands at the end again
Rings ==
    UNION {{Append(points, points[1]) :
               points \in [1 .. n -> RingLongitudes \X RingLatitudes]} :
           n \in 3 .. MaxRingPoints}

InitRing ==
    /\ InitIndexer
    /\ \E ring \in Rings :
        calc = [op |-> "ring", stage |-> "ring", ring |-> ring,
                fixed |-> [returned |-> "None", shifts |-> 0, ring |-> ring]]

\* index.py:667: split_x = _fix_ring_winding_order(ring)
FixRingWindingOrder ==
    /\ calc.op = "ring"
    /\ calc.stage = "ring"
    /\ calc' = [calc EXCEPT !.stage = "fixed",
                            !.fixed = fix_ring_winding_order_float(calc.ring)]
    /\ UNCHANGED indexerVars

NextRing == FixRingWindingOrder

SpecRing == InitRing /\ [][NextRing]_vars

----------------------------------------------------------------------------
(* The loop of update_spatial_filter_index over the features of one dataset,
   in one process: get_geometry.legend_to_col_id lives as long as it *)

\* the envelopes of the geometries, (min-x, max-x, min-y, max-y): a rectangle,
\* a point at the latitude of 95 degrees, and a geometry whose envelope raises
RectangleEnvelope == <<10 * Degree, 12 * Degree, 20 * Degree, 21 * Degree>>
OffGlobeEnvelope == <<10 * Degree, 10 * Degree, 95 * Degree, 95 * Degree>>
UnreadableEnvelope == <<>>

\* the features of a dataset "points" (an id and a geometry column) and of a
\* dataset "table" (an id and a name, no geometry column).  A feature stands
\* for its blob: equal features are one blob
GeometryFeatures ==
    {[legend |-> "points", fields |-> <<"other", "Geometry">>, geom_envelope |-> e] :
        e \in {RectangleEnvelope, OffGlobeEnvelope, UnreadableEnvelope}}
    \cup {[legend |-> "points", fields |-> fields, geom_envelope |-> RectangleEnvelope] :
        fields \in {<<"None", "Geometry">>}}
    \cup {[legend |-> "points", fields |-> fields, geom_envelope |-> UnreadableEnvelope] :
        fields \in {<<"other", "EmptyGeometry">>, <<"other", "None">>, <<"None", "None">>}}
    \cup {[legend |-> "table", fields |-> fields, geom_envelope |-> UnreadableEnvelope] :
        fields \in {<<"other", "other">>, <<"other", "None">>}}

\* what the walk lists: up to three features
FeatureStreams ==
    {<<>>}
    \cup {<<f>> : f \in GeometryFeatures}
    \cup {<<f, g>> : f \in GeometryFeatures, g \in GeometryFeatures}
    \cup {<<f, g, h>> : f \in GeometryFeatures, g \in GeometryFeatures, h \in GeometryFeatures}

\* the transforms of the dataset: its one CRS is EPSG:4326
LoopTransforms == <<[offset |-> 0, skew |-> 0, wraps |-> TRUE]>>

\* the loop before its first iteration (index.py:329-337): i = 0, nothing
\* taken from the walker, no statement executed in the transaction
LoopStart(walk, legend_to_col_id) ==
    [op |-> "geometry", stage |-> "loop", stream |-> walk, pending |-> walk,
     legend_to_col_id |-> legend_to_col_id, memoized |-> FALSE, processed |-> <<>>,
     outcome |-> "none", i |-> 0, taken |-> 0, rows |-> {}, summary |-> -1]

\* index.py:339-357: one iteration of the loop on the next feature of the
\* walk.  outcome is "continue" when the feature is passed over, "row" when
\* its envelope is inserted or replaced, and the exception when get_geometry
\* or encode raises one: nothing catches it, so it leaves the loop and the
\* `with db` block, which rolls the transaction back, and the run fails
process_feature(loop) ==
    LET feature == Head(loop.pending)
        geom == get_geometry(loop.legend_to_col_id, feature.legend, feature.fields)
        ending_with(envelope) ==
            IF geom.raised THEN "TypeError"
            ELSE IF geom.value = "None" \/ geom.value = "EmptyGeometry" THEN "continue"
            ELSE IF envelope = <<>> THEN "continue"
            ELSE IF encode_raises(envelope) THEN "AssertionError"
            ELSE "row"
        after(ending) ==
            [loop EXCEPT !.stage = IF ending \in {"TypeError", "AssertionError"}
                                   THEN "failed" ELSE "loop",
                         !.pending = Tail(loop.pending),
                         !.legend_to_col_id = geom.legend_to_col_id,
                         !.memoized = MemoGet(loop.legend_to_col_id, feature.legend) # NoneColumn,
                         !.processed = <<feature>>,
                         !.outcome = ending,
                         !.i = loop.taken,
                         !.taken = loop.taken + 1,
                         !.rows = IF ending \in {"TypeError", "AssertionError"} THEN {}
                                  ELSE IF ending = "row" THEN loop.rows \cup {feature}
                                  ELSE loop.rows]
    IN  after(ending_with(envelope_for_indexing(feature.geom_envelope, LoopTransforms)))

\* index.py:359-365: the walk is over; the frontier is written, the
\* transaction commits and "Indexed {i} features" is printed
finish_run(loop) == [loop EXCEPT !.stage = "done", !.summary = loop.i]

\* the run from a state of the loop to its end: index.py:339-365
RECURSIVE run_loop(_)
run_loop(loop) ==
    IF loop.stage # "loop" THEN loop
    ELSE IF loop.pending = <<>> THEN finish_run(loop)
    ELSE run_loop(process_feature(loop))

InitGeometry ==
    /\ InitIndexer
    /\ \E walk \in FeatureStreams : calc = LoopStart(walk, <<>>)

ProcessFeature ==
    /\ calc.op = "geometry"
    /\ calc.stage = "loop"
    /\ calc.pending # <<>>
    /\ calc' = process_feature(calc)
    /\ UNCHANGED indexerVars

FinishRun ==
    /\ calc.op = "geometry"
    /\ calc.stage = "loop"
    /\ calc.pending = <<>>
    /\ calc' = finish_run(calc)
    /\ UNCHANGED indexerVars

NextGeometry == ProcessFeature \/ FinishRun

SpecGeometry == InitGeometry /\ [][NextGeometry]_vars

----------------------------------------------------------------------------
(* EnvelopeEncoder.encode and decode applied to an envelope *)

\* the floats m * 2^e up to limit of the binades studied, the highest being
\* [2^top, 2^(top + 1)), with both signs, and 0
FloatsUpTo(limit, top) ==
    LET mantissas == Pow2(FloatPrecision - 1) .. (Pow2(FloatPrecision) - 1)
        exponents == (top - FloatPrecision - InputBinades + 2) .. (top - FloatPrecision + 1)
        positive ==
            {IF x[2] >= 0 THEN <<x[1] * Pow2(x[2]), 1>> ELSE Reduce(x[1], Pow2(-x[2])) :
                x \in {y \in mantissas \X exponents :
                          IF y[2] >= 0 THEN y[1] * Pow2(y[2]) <= limit
                                       ELSE y[1] <= limit * Pow2(-y[2])}}
    IN  positive \cup {<<-x[1], x[2]>> : x \in positive} \cup {<<0, 1>>}

\* a <= b for two fractions
FracLE(a, b) == a[1] * b[2] <= b[1] * a[2]

\* the coordinates that are paired with every longitude (latitude)
AnchorLon == {<<-176, 1>>, <<20, 1>>, <<150, 1>>}
AnchorLat == {<<-40, 1>>, <<48, 1>>}

\* the envelopes given to encode: -180 <= w, e <= 180 and -90 <= s <= n <= 90;
\* e < w is an envelope that wraps across the antimeridian
CodecEnvelopes ==
    LET lon == FloatsUpTo(180, 7)
        lat == FloatsUpTo(90, 6)
        lons == (lon \X AnchorLon) \cup (AnchorLon \X lon)
        lats == {x \in (lat \X AnchorLat) \cup (AnchorLat \X lat) : FracLE(x[1], x[2])}
    IN  {<<a[1], <<-40, 1>>, a[2], <<48, 1>> >> : a \in lons}
            \cup {<< <<-176, 1>>, b[1], <<20, 1>>, b[2]>> : b \in lats}

InitCodec ==
    /\ InitIndexer
    /\ \E half \in 1 .. MaxHalfBits, envelope \in CodecEnvelopes :
        calc = [op |-> "codec", stage |-> "envelope", bits |-> 2 * half,
                envelope |-> envelope, encoded |-> <<>>, decoded |-> <<>>]

\* index.py:507-523: encoder.encode(envelope)
CodecEncode ==
    /\ calc.op = "codec"
    /\ calc.stage = "envelope"
    /\ calc' = [calc EXCEPT !.stage = "encoded",
                            !.encoded = encode_bytes(calc.bits, calc.envelope)]
    /\ UNCHANGED indexerVars

\* index.py:532-543: encoder.decode(encoded)
CodecDecode ==
    /\ calc.op = "codec"
    /\ calc.stage = "encoded"
    /\ calc' = [calc EXCEPT !.stage = "decoded",
                            !.decoded = decode(calc.bits, calc.encoded)]
    /\ UNCHANGED indexerVars

NextCodec ==
    \/ CodecEncode
    \/ CodecDecode

SpecCodec == InitCodec /\ [][NextCodec]_vars

----------------------------------------------------------------------------
(* Vocabulary of the properties *)

\* blob ids that have a row in a table of feature envelopes
BlobIds(rows) == {r.blob_id : r \in rows}

\* a feature that must be indexed: non-empty geometry, a dataset with at
\* least one transform, a computable envelope
Indexable(b) ==
    /\ GeometryOf(b) = "geom"
    /\ transforms_for_dataset(DsPathOf(b)) # {}
    /\ BuiltEnvelopeOf(b) # <<>>

\* no member is an ancestor of another
IsAntichain(S) == \A c \in S, d \in S : c \notin AncestorsOf(d)

\* the members of S that are not ancestors of another member
MinimalAntichain(S) == {c \in S : ~ \E d \in S \ {c} : c \in Reach({d})}

\* the rows of feature_envelopes after indexing the commits C on a fresh index
FreshIndexRows(C) ==
    {[blob_id |-> b, envelope |-> encode(DEFAULT_BITS_PER_VALUE, BuiltEnvelopeOf(b))] :
        b \in {x \in BlobsOf(C) : Indexable(x)}}

\* the stop commits a run must use: the rows of `commits` before the run,
\* none when clear_existing is set or the table was absent
StopBefore ==
    IF args.clear_existing \/ ~pre.commits.exists THEN {} ELSE pre.commits.rows

\* a step after which the tables are as before
TablesUnchanged == commits' = commits /\ feature_envelopes' = feature_envelopes

----------------------------------------------------------------------------
(* C1..C10: the frontier and the transaction *)

\* C1: in every committed state, every indexable feature blob reachable from
\* a commit of `commits` has a row in feature_envelopes.
FrontierComplete ==
    \A b \in BlobsOf(commits.rows) :
        Indexable(b) => b \in BlobIds(feature_envelopes.rows)

\* C2: a run that aborts leaves `commits` and `feature_envelopes` with
\* exactly their pre-run rows, whatever its flags.
AbortLeavesIndexUnchanged ==
    [][outcome' = "aborted" =>
        (commits'.rows = pre.commits.rows
            /\ feature_envelopes'.rows = pre.feature_envelopes.rows)]_vars

\* C3: once the object enumeration has failed, the run commits nothing:
\* neither an upsert nor the new frontier becomes visible.
WalkFailureIsFatal ==
    [][walk_failed => TablesUnchanged]_vars

\* what C4 asks of one step
FrontierCommitsWithUpsertsStep ==
    pc \in {"walk", "commit"} =>
        /\ \/ TablesUnchanged
           \/ /\ pc = "commit"
              /\ commits'.rows = all_independent_commits
              /\ feature_envelopes'.rows = tx.feature_envelopes
              /\ upserted \subseteq BlobIds(feature_envelopes'.rows)
        /\ pc = "walk" => tx.commits = commits.rows
        /\ pc = "commit" => (stream = {} /\ tx.commits = all_independent_commits)

\* C4: while the transaction is open nothing of the run is visible; the one
\* step that changes the tables puts the new frontier and every upsert of the
\* run in place together, and the frontier is replaced after the last upsert.
FrontierCommitsWithUpserts == [][FrontierCommitsWithUpsertsStep]_vars

\* C4 witness: a run with upserts is about to commit over an older frontier
FrontierCommitsWithUpsertsWitness ==
    /\ pc = "commit"
    /\ upserted # {}
    /\ commits.rows # {}
    /\ tx.commits # commits.rows
    /\ tx.feature_envelopes # feature_envelopes.rows

\* C5: no commit stored in `commits` is an ancestor of another stored commit.
FrontierIsAntichain == IsAntichain(commits.rows)

\* C5 witness: a run that was asked for a commit and its ancestor, or that
\* built on an indexed ancestor, has stored its frontier
FrontierIsAntichainWitness ==
    /\ pc = "idle"
    /\ outcome = "indexed"
    /\ trail.clean
    /\ \E k \in DOMAIN trail.runs : ~IsAntichain(trail.runs[k].commits)
    /\ Cardinality(commits.rows) > 1

\* C6: every blob id stored in feature_envelopes is reachable from some
\* commit stored in `commits`.
RowsReachableFromFrontier ==
    pc = "idle" => BlobIds(feature_envelopes.rows) \subseteq BlobsOf(commits.rows)

\* what C7 asks of the step that commits a run
FrontierIsMinimalOfRequestedAndStopStep ==
    (pc = "commit" /\ outcome' = "indexed") =>
        LET frontier == MinimalAntichain(args.commits \cup StopBefore) IN
        /\ commits'.rows = frontier
        /\ args.commits \subseteq Reach(commits'.rows)
        /\ start_commits = frontier \ StopBefore
        /\ stop_commits = StopBefore
        /\ BlobsOf(frontier \ StopBefore) \ BlobsOf(StopBefore) \subseteq seen
        /\ seen \subseteq UNION {Tree(c) : c \in Reach(frontier \ StopBefore)
                                                \ Reach(StopBefore)}

\* C7: a run that commits stores exactly MinimalAntichain(requested \cup stop);
\* every requested commit is a member or an ancestor of a member; the walk
\* was started from that antichain minus stop, stopping at stop, and it took
\* every blob reachable from the start and not from stop, and only blobs of
\* commits reachable from the start and not from stop.
FrontierIsMinimalOfRequestedAndStop ==
    [][FrontierIsMinimalOfRequestedAndStopStep]_vars

\* what C8 asks of the step after the frontier was resolved
CoveredRequestIsNoOpStep ==
    (pc = "resolved" /\ ~args.clear_existing
        /\ args.commits \subseteq Reach(commits.rows)) =>
            /\ pc' = "idle"
            /\ outcome' \in {"up_to_date", "aborted"}
            /\ TablesUnchanged

\* C8: a run without clear_existing whose requested commits are all in the
\* frontier or ancestors of it ends at once, reporting that the index is up
\* to date (unless it is killed first), and leaves both tables unchanged.
CoveredRequestIsNoOp == [][CoveredRequestIsNoOpStep]_vars

\* C8 witness: index(C); index(C): the second run has resolved its frontier
CoveredRequestIsNoOpWitness ==
    /\ pc = "resolved"
    /\ ~args.clear_existing
    /\ trail.clean
    /\ Len(trail.runs) = 1
    /\ trail.runs[1].commits = args.commits
    /\ feature_envelopes.rows # {}

\* C9: indexing [x] and then [y], x an ancestor of y, leaves the same rows
\* of feature_envelopes and of `commits` as indexing [y] alone on a fresh
\* index, which leaves the envelopes of the indexable blobs reachable from y.
CommitByCommitEquivalence ==
    \A x \in Commits, y \in Commits :
        (/\ pc = "idle"
         /\ trail.clean
         /\ \/ trail.runs = <<IndexRun({y}, FALSE)>>
            \/ /\ x \in AncestorsOf(y)
               /\ trail.runs = <<IndexRun({x}, FALSE), IndexRun({y}, FALSE)>>)
        => /\ feature_envelopes.rows = FreshIndexRows({y})
           /\ commits.rows = {y}

\* C10: after index(C), indexing C again with clear_existing, or after the
\* rows of `commits` were deleted, is not a no-op, never fails on a row that
\* is already there, and leaves exactly the rows of index(C), one per blob;
\* a clear_existing run leaves no row of the index it replaces.
ClearAndRebuildEquivalence ==
    /\ outcome # "store_error"
    /\ \A r \in feature_envelopes.rows, q \in feature_envelopes.rows :
        r.blob_id = q.blob_id => r = q
    /\ \A C \in Requests :
        /\ (/\ pc = "idle"
            /\ trail.clean
            /\ \E first \in BOOLEAN :
                \/ trail.runs = <<IndexRun(C, first), IndexRun(C, TRUE)>>
                \/ trail.runs = <<IndexRun(C, first), RowsDeleted, IndexRun(C, FALSE)>>)
           => feature_envelopes.rows = FreshIndexRows(C)
        /\ (/\ pc = "idle"
            /\ trail.clean
            /\ Len(trail.runs) > 1
            /\ trail.runs[Len(trail.runs)] = IndexRun(C, TRUE))
           => feature_envelopes.rows = FreshIndexRows(C)
        /\ (/\ pc = "resolved"
            /\ trail.clean
            /\ args.commits = C
            /\ \E first \in BOOLEAN :
                \/ args.clear_existing /\ trail.runs = <<IndexRun(C, first)>>
                \/ trail.runs = <<IndexRun(C, first), RowsDeleted>>)
           => start_commits # {}

----------------------------------------------------------------------------
(* C11..C20: dry run, the envelope codec, envelopes and geometries *)

\* C11: a run with dry_run set ends with both tables holding exactly the rows
\* they held before the run, whatever its other arguments.
DryRunLeavesIndexUnchanged ==
    [][outcome' = "dry_run" =>
        (commits'.rows = pre.commits.rows
            /\ feature_envelopes'.rows = pre.feature_envelopes.rows)]_vars

\* a - b <= n/d for two fractions a, b and integers n, d > 0
FracDiffLE(a, b, n, d) == (a[1] * b[2] - b[1] * a[2]) * d <= n * a[2] * b[2]

\* C12: the decoded envelope is not inside the encoded one on any side
\* (d.w <= w, d.s <= s, d.e >= e, d.n >= n), and is off by at most
\* 360/(2^B - 1) in longitude and 180/(2^B - 1) in latitude.
CodecRoundsOutwards ==
    (calc.op = "codec" /\ calc.stage = "decoded") =>
        LET x == calc.envelope
            d == calc.decoded
            V == VALUE_MAX_INT(calc.bits)
        IN  /\ FracLE(d[1], x[1]) /\ FracLE(d[2], x[2])
            /\ FracLE(x[3], d[3]) /\ FracLE(x[4], d[4])
            /\ FracDiffLE(x[1], d[1], 360, V) /\ FracDiffLE(d[3], x[3], 360, V)
            /\ FracDiffLE(x[2], d[2], 180, V) /\ FracDiffLE(d[4], x[4], 180, V)

\* the longitudes of (w, e) are among those of (dw, de); e < w wraps
LonRangeWithin(w, e, dw, de) ==
    IF FracLE(dw, de)
    THEN \/ FracLE(w, e) /\ FracLE(dw, w) /\ FracLE(e, de)
         \/ dw = <<-180, 1>> /\ de = <<180, 1>>
    ELSE IF FracLE(w, e)
         THEN FracLE(dw, w) \/ FracLE(e, de)
         ELSE FracLE(dw, w) /\ FracLE(e, de)

\* C13: the region of the decoded envelope contains the region of the
\* encoded one, for envelopes that wrap across the antimeridian too.
CodecCoversEnvelope ==
    (calc.op = "codec" /\ calc.stage = "decoded") =>
        LET x == calc.envelope
            d == calc.decoded
        IN  /\ LonRangeWithin(x[1], x[3], d[1], d[3])
            /\ FracLE(d[2], x[2])
            /\ FracLE(x[4], d[4])

\* the number a sequence of bytes stands for, first byte most significant
RECURSIVE BigEndianValue(_)
BigEndianValue(bytes) ==
    IF bytes = <<>> THEN 0
    ELSE bytes[1] * Pow2(8 * (Len(bytes) - 1)) + BigEndianValue(Tail(bytes))

\* the B-bit values of w, s, e, n of the envelope under study
ValuesOfEnvelope ==
    << encode_value(calc.bits, calc.envelope[1], -180, 180, "floor"),
       encode_value(calc.bits, calc.envelope[2], -90, 90, "floor"),
       encode_value(calc.bits, calc.envelope[3], -180, 180, "ceil"),
       encode_value(calc.bits, calc.envelope[4], -90, 90, "ceil") >>

\* C14: encode returns 4B/8 bytes, the big-endian form of the B-bit values of
\* w, s, e, n concatenated in this order, each in [0, 2^B - 1]; decode takes
\* the same bytes apart and returns the four values in the order (w, s, e, n).
CodecLayout ==
    (calc.op = "codec" /\ calc.stage # "envelope") =>
        LET v == ValuesOfEnvelope
            B == Pow2(calc.bits)
        IN  /\ \A k \in 1 .. 4 : v[k] \in 0 .. (B - 1)
            /\ Len(calc.encoded) = (4 * calc.bits) \div 8
            /\ \A k \in DOMAIN calc.encoded : calc.encoded[k] \in 0 .. 255
            /\ BigEndianValue(calc.encoded) = ((v[1] * B + v[2]) * B + v[3]) * B + v[4]
            /\ calc.stage = "decoded" =>
                calc.decoded = << decode_value(calc.bits, v[1], -180, 180),
                                  decode_value(calc.bits, v[2], -90, 90),
                                  decode_value(calc.bits, v[3], -180, 180),
                                  decode_value(calc.bits, v[4], -90, 90) >>

\* C14 witness: a two-byte envelope with four different values was decoded
CodecLayoutWitness ==
    /\ calc.op = "codec"
    /\ calc.stage = "decoded"
    /\ calc.bits = 4
    /\ Cardinality({ValuesOfEnvelope[k] : k \in 1 .. 4}) = 4
    /\ calc.encoded[1] # calc.encoded[2]
    /\ Cardinality({calc.decoded[k] : k \in 1 .. 4}) = 4

\* all envelopes of a set of rows have this many bytes
AllOfLength(rows, length) == \A r \in rows : r.envelope.length = length

\* C15: all rows of feature_envelopes have the same envelope length; a run
\* that found rows encodes with B = length * 8 / 4 of an existing row, which
\* is even, a run that found none with B = 20; every envelope it writes has
\* 4B/8 bytes, so the rows it is about to commit are of one length too.
EnvelopeLengthIsUniform ==
    /\ \A r \in feature_envelopes.rows : AllOfLength(feature_envelopes.rows, r.envelope.length)
    /\ pc \in {"banner", "walk", "commit"} =>
        /\ bits_per_value % 2 = 0
        /\ feature_envelopes.rows = {} => bits_per_value = 20
        /\ AllOfLength(feature_envelopes.rows, (bits_per_value * 4) \div 8)
    /\ pc \in {"walk", "commit"} =>
        AllOfLength(tx.feature_envelopes, (bits_per_value * 4) \div 8)

\* C15 witness: a run wrote the envelope of b2 next to the 8-byte envelope of
\* b1 it found, and committed
EnvelopeLengthIsUniformWitness ==
    /\ pc = "idle"
    /\ outcome = "indexed"
    /\ {r.blob_id : r \in feature_envelopes.rows} = {"b1", "b2"}
    /\ \E r \in feature_envelopes.rows :
        r.blob_id = "b2" /\ r.envelope.length = LegacyEnvelopeLength
                         /\ r.envelope.length # 10

\* every longitude of the wrapped range (w, e) is a longitude of the wrapped
\* range (dw, de): one range lies in the other after a whole turn, or the
\* other is the full band
LonCovered(w, e, dw, de) ==
    LET x == unwrap_lon_envelope(w, e)
        d == unwrap_lon_envelope(dw, de)
    IN  \/ d[2] - d[1] >= 360 * Degree
        \/ \E turn \in {-360 * Degree, 0, 360 * Degree} :
               d[1] <= x[1] + turn /\ x[2] + turn <= d[2]

\* every point of env is a point of union
EnvelopeCovered(env, union) ==
    /\ LonCovered(env[1], env[3], union[1], union[3])
    /\ union[2] <= env[2]
    /\ env[4] <= union[4]

\* C16: the union of two wrapped envelopes covers every point of each of them.
UnionCoversBoth ==
    (calc.op = "union" /\ calc.stage = "united") =>
        /\ calc.env1 # <<>> => EnvelopeCovered(calc.env1, calc.result)
        /\ EnvelopeCovered(calc.env2, calc.result)

\* the narrowest of the hulls of (w1, e1) with (w2, e2) moved by -360, 0 or 360
NarrowestHull(r1, r2) ==
    LET hull(shift) == <<Min(r1[1], r2[1] + shift), Max(r1[2], r2[2] + shift)>>
        hulls == {hull(-360 * Degree), hull(0), hull(360 * Degree)}
    IN  CHOOSE h \in hulls : \A g \in hulls : h[2] - h[1] <= g[2] - g[1]

\* C17: the union has latitudes (min s, max n); its longitudes are the
\* narrowest hull of the first range with the second moved by -360, 0 or 360,
\* brought back into [-180, 180] with e < w when the hull goes across the
\* antimeridian, and the full band (-180, 180) when that hull is 360 wide or more.
UnionIsNarrowestHull ==
    (calc.op = "union" /\ calc.stage = "united" /\ calc.env1 # <<>>) =>
        LET a == calc.env1
            b == calc.env2
            u == calc.result
            hull == NarrowestHull(unwrap_lon_envelope(a[1], a[3]),
                                  unwrap_lon_envelope(b[1], b[3]))
            range == unwrap_lon_envelope(u[1], u[3])
        IN  /\ u[2] = Min(a[2], b[2])
            /\ u[4] = Max(a[4], b[4])
            /\ u[1] \in -180 * Degree .. 180 * Degree
            /\ u[3] \in -180 * Degree .. 180 * Degree
            /\ IF hull[2] - hull[1] >= 360 * Degree
               THEN u[1] = -180 * Degree /\ u[3] = 180 * Degree
               ELSE /\ range[2] - range[1] = hull[2] - hull[1]
                    /\ (range[1] - hull[1]) % (360 * Degree) = 0
                    /\ (\E k \in {-180 * Degree, 180 * Degree, 540 * Degree} :
                            hull[1] < k /\ k < hull[2]) => u[3] < u[1]
                    /\ u[3] < u[1] =>
                            (\E k \in {-180 * Degree, 180 * Degree, 540 * Degree} :
                                hull[1] <= k /\ k <= hull[2])

\* C18: every envelope that get_envelope_for_indexing returns has its longitudes
\* within [-180, 180] and its latitudes within [-90, 90] with s <= n, as the
\* assertions of EnvelopeEncoder.encode require.
BuiltEnvelopeInRange ==
    (calc.op = "envelope" /\ calc.stage = "built" /\ calc.result # <<>>) =>
        /\ -180 * Degree <= calc.result[1] /\ calc.result[1] <= 180 * Degree
        /\ -180 * Degree <= calc.result[3] /\ calc.result[3] <= 180 * Degree
        /\ -90 * Degree <= calc.result[2]
        /\ calc.result[2] <= calc.result[4]
        /\ calc.result[4] <= 90 * Degree

\* the longitudes of the corners of the rectangle as the transform places
\* them on the globe, before any wrapping
ProjectedLongitudes(geom_envelope, transform) ==
    {x + transform.skew * y + transform.offset :
        x \in {geom_envelope[1], geom_envelope[2]},
        y \in {geom_envelope[3], geom_envelope[4]}}

\* C19: a rectangle of positive width and height whose projected ring goes
\* across the antimeridian and is less than 180 degrees wide, under a transform
\* that returns wrapped longitudes, gets an envelope, with e < w, whose
\* longitudes contain the longitude of every projected corner.
CrossingRectangleWraps ==
    (/\ calc.op = "envelope" /\ calc.stage = "built"
     /\ Len(calc.transforms) = 1
     /\ calc.transforms[1].wraps
     /\ calc.geom_envelope[1] < calc.geom_envelope[2]
     /\ calc.geom_envelope[3] < calc.geom_envelope[4]
     /\ \E a, b \in ProjectedLongitudes(calc.geom_envelope, calc.transforms[1]) :
            a < 180 * Degree /\ 180 * Degree < b
     /\ \A a, b \in ProjectedLongitudes(calc.geom_envelope, calc.transforms[1]) :
            b - a < 180 * Degree)
    => /\ calc.result # <<>>
       /\ calc.result[3] < calc.result[1]
       /\ \A a \in ProjectedLongitudes(calc.geom_envelope, calc.transforms[1]) :
            LonCovered(wrap_lon(a), wrap_lon(a), calc.result[1], calc.result[3])

\* the feature has no Geometry value, or its first Geometry value is empty
NothingToIndex(fields) ==
    \/ \A i \in DOMAIN fields : ~IsGeometry(fields[i])
    \/ \E i \in DOMAIN fields :
        /\ fields[i] = "EmptyGeometry"
        /\ \A j \in DOMAIN fields : IsGeometry(fields[j]) => i <= j

\* C20: a feature without a Geometry value (no geometry column, or a null
\* geometry, other fields null or not) or with an empty geometry is passed
\* over: no row, no error, and the loop goes on, whether its legend was
\* memoized before or not.
FeatureWithoutGeometryIsSkipped ==
    (/\ calc.op = "geometry"
     /\ calc.processed # <<>>
     /\ NothingToIndex(calc.processed[1].fields))
    => calc.outcome = "continue"

----------------------------------------------------------------------------
(* C21..C30: errors of one feature, the order of the walk, rows across runs,
   the transforms, the older indexer, the summary, rings and unions *)

\* the feature has a geometry, and computing its envelope or encoding it raises
EnvelopeOrEncodingRaises(feature) ==
    /\ feature.geom_envelope = UnreadableEnvelope
       \/ encode_raises(envelope_for_indexing(feature.geom_envelope, LoopTransforms))

\* C21: when computing the envelope of a feature, projecting it or encoding
\* it raises an error, the feature gets no row and the run goes on: the loop
\* continues with the features left and ends by writing the frontier.
FeatureErrorIsSwallowed ==
    (/\ calc.op = "geometry"
     /\ calc.processed # <<>>
     /\ calc.outcome \notin {"none", "TypeError"}
     /\ calc.processed[1].fields = <<"other", "Geometry">>
     /\ EnvelopeOrEncodingRaises(calc.processed[1]))
    => /\ calc.outcome = "continue"
       /\ calc.stage \in {"loop", "done"}
       /\ calc.processed[1] \notin calc.rows

\* the walks that list the same blobs as walk, in any order, a blob possibly
\* more than once
Rearrangements(walk) ==
    LET blobs == {walk[k] : k \in DOMAIN walk}
    IN  {t \in UNION {[1 .. n -> blobs] : n \in 0 .. Len(walk) + 1} :
            {t[k] : k \in DOMAIN t} = blobs}

\* C22: a run ends in the same way, with the same rows and the same frontier,
\* for every order in which the walker could have listed the same blobs and
\* for every repetition of a blob in the walk.
WalkOrderIsImmaterial ==
    (calc.op = "geometry" /\ calc.stage \in {"done", "failed"}) =>
        \A t \in Rearrangements(calc.stream) :
            LET other == run_loop(LoopStart(t, <<>>))
            IN  /\ other.stage = calc.stage
                /\ other.rows = calc.rows

\* the blob ids that have a row in a table
StoredBlobIds(table) == {r.blob_id : r \in table.rows}

FeatureRowsOnlyGrowStep ==
    \/ /\ StoredBlobIds(feature_envelopes) \subseteq StoredBlobIds(feature_envelopes')
       /\ \A r, q \in feature_envelopes'.rows : r.blob_id = q.blob_id => r = q
    \/ /\ pc = "drop_feature_envelopes"
       /\ args.clear_existing
       /\ feature_envelopes' = AbsentTable

\* C23: no step of a run takes a blob id out of `feature_envelopes`, and no
\* blob id ever has two rows, except the step of a clear_existing run that
\* drops the table.
FeatureRowsOnlyGrow == [][FeatureRowsOnlyGrowStep]_vars

\* a run without clear_existing is about to commit the replaced row of a blob
\* that an earlier run had stored, next to a row it did not touch
FeatureRowsOnlyGrowWitness ==
    /\ pc = "commit"
    /\ ~args.clear_existing
    /\ upserted \cap StoredBlobIds(feature_envelopes) # {}
    /\ StoredBlobIds(feature_envelopes) \ upserted # {}

\* C29: union_of_envelopes gives the same envelope whichever of the two
\* envelopes comes first.
UnionIsCommutative ==
    (calc.op = "union" /\ calc.stage = "united" /\ calc.env1 # <<>>) =>
        calc.result = union_of_envelopes(calc.env2, calc.env1)

RowNeverNarrowsStep ==
    (calc.op = "rewrite" /\ calc.stored # <<>> /\ calc'.stored # <<>>) =>
        EnvelopeCovered(calc.stored, calc'.stored)

\* C24: the envelope a run stores for a blob covers the envelope that the run
\* before it had stored for the same blob.
RowNeverNarrows == [][RowNeverNarrowsStep]_vars

\* C27: the number in the closing line `Indexed <n> features` is the number
\* of features that the run took from the walker.
SummaryCountsFeatures ==
    (calc.op = "geometry" /\ calc.stage = "done") => calc.summary = calc.taken

\* C28: an envelope that transform_minmax_envelope returns for one transform
\* spans less than 180 degrees and the buffer of both sides, eastwards from
\* its w to its e.  The buffer is a tenth of a degree a side at the most.
TransformedWidthIsBounded ==
    (/\ calc.op = "envelope"
     /\ calc.stage = "built"
     /\ Len(calc.transforms) = 1
     /\ calc.result # <<>>)
    => LET range == unwrap_lon_envelope(calc.result[1], calc.result[3])
       IN  range[2] - range[1] < 180 * Degree + 2 * (Degree \div 10)

ReindexedTreeIsTheSameStep ==
    (/\ calc.op = "spatial_tree"
     /\ calc.event = "delete"
     /\ calc.exit_code = 0
     /\ calc'.event = "index"
     /\ ~calc'.clear_existing
     /\ calc'.requested = calc.requested)
    => /\ calc'.exit_code = 0
       /\ ~calc'.nothing_to_do
       /\ calc'.blobs = calc.blobs

\* C26: in the older indexer, after a run has indexed some commits and the
\* rows of `commits` were deleted, a run over the same commits ends with exit
\* code 0, does not report that there is nothing to do, and leaves the rows
\* of `blobs` as they were.
ReindexedTreeIsTheSame == [][ReindexedTreeIsTheSameStep]_vars

\* the names of the CRS for which a list holds a transform
TransformedCrs(transforms) == {transforms[k].name : k \in DOMAIN transforms}

\* the CRS that have a definition of the given kind among the definitions
CrsWith(definitions, Kind(_)) == {CrsOf(d.oid) : d \in {f \in definitions : Kind(f)}}

\* C25: the transforms loaded for a dataset hold one transform for every CRS
\* whose definitions are sound, whatever fails for the definitions of another
\* CRS, and no transform twice; the features of a dataset for which nothing
\* loaded get no row, and no dataset is loaded a second time in the run.
TransformLoadingIsRobust ==
    calc.op = "loader" =>
        \A ds_path \in {"roads", "notes"} :
            LET entry == calc.ds_to_transforms[ds_path]
                definitions == calc.definitions[ds_path]
                sound(d) == d.readable /\ d.transformable
                failing(d) == d.readable /\ ~d.transformable
                features == {k \in 1 .. calc.taken : calc.stream[k] = ds_path}
            IN  /\ calc.loads[ds_path] <= 1
                /\ entry.loaded = (calc.loads[ds_path] = 1)
                /\ entry.loaded =>
                    /\ CrsWith(definitions, sound) \ CrsWith(definitions, failing)
                           \subseteq TransformedCrs(entry.transforms)
                    /\ TransformedCrs(entry.transforms) \subseteq CrsWith(definitions, sound)
                    /\ Cardinality(TransformedCrs(entry.transforms)) = Len(entry.transforms)
                /\ (entry.loaded /\ entry.transforms = <<>>) =>
                    /\ features \subseteq calc.skipped
                    /\ features \cap calc.rows = {}

\* a run has skipped two features of a dataset for which nothing loaded, after
\* loading for another dataset the transform of one CRS while a definition of
\* another CRS failed
TransformLoadingIsRobustWitness ==
    /\ calc.op = "loader"
    /\ calc.pending = <<>>
    /\ Cardinality({k \in calc.skipped : calc.stream[k] = "notes"}) = 2
    /\ calc.rows # {}
    /\ Len(calc.ds_to_transforms["roads"].transforms) = 1
    /\ \E d \in calc.definitions["roads"] : ~d.readable \/ ~d.transformable

\* twice the signed area of a ring, without rounding
RECURSIVE ExactShoelace(_, _)
ExactShoelace(ring, i) ==
    IF i >= Len(ring) THEN <<0, 1>>
    ELSE LET rest == ExactShoelace(ring, i + 1)
             term == <<ring[i][1][1] * ring[i + 1][2][1] * ring[i + 1][1][2] * ring[i][2][2]
                         - ring[i + 1][1][1] * ring[i][2][1] * ring[i][1][2] * ring[i + 1][2][2],
                       ring[i][1][2] * ring[i + 1][2][2] * ring[i + 1][1][2] * ring[i][2][2]>>
         IN  <<term[1] * rest[2] + rest[1] * term[2], term[2] * rest[2]>>

\* C30: _fix_ring_winding_order shifts the ring at most once per distinct x
\* value but one and never raises; it leaves a ring that is anticlockwise;
\* and for a ring that is anticlockwise or has no area it returns None and
\* leaves the ring as it was.
RingWindingIsFixed ==
    (calc.op = "ring" /\ calc.stage = "fixed") =>
        /\ calc.fixed.shifts <=
               Cardinality({calc.ring[i][1] : i \in DOMAIN calc.ring}) - 1
        /\ calc.fixed.returned # "AssertionError"
        /\ is_anticlockwise_float(calc.fixed.ring)
        /\ ExactShoelace(calc.ring, 1)[1] >= 0 =>
               calc.fixed.returned = "None" /\ calc.fixed.ring = calc.ring

====
